---- MODULE Spec2Model ----
(***************************************************************************)
(* Model of the collaborative song-queue bot.                              *)
(*                                                                         *)
(*   Spec      QueueManager: queueOperation / processQueue on the          *)
(*             JavaScript event loop (one action per synchronous run).     *)
(*   LiveSpec  the same steps for up to MaxLiveOps operations, with the    *)
(*             fairness the event loop gives: armed timers fire.           *)
(*   SongSpec  SongQueue (addSong, vote, removeFirst) together with the    *)
(*             QueueDisplay steps that mutate the same array.              *)
(*   VoteSpec  SongQueue alone, with the value each vote returns.          *)
(*   WatchSpec PlaybackManager: the polls of checkCurrentlyPlaying and     *)
(*             the events they emit.                                       *)
(*   AuthSpec  AuthManager.executeWithTokenRefresh.                        *)
(*   PlaylistSpec  PlaylistManager.ensureNewPlaylistHasFiveSongs and the   *)
(*             operations it queues, on the QueueManager of Spec.          *)
(*   FinishSpec  the two signals of a finished track (songFinish timer,    *)
(*             spotifyTrackChanged) and QueueDisplay.onSongFinish.         *)
(*   SwitchSpec  QueueDisplay.ensurePlayingFromCorrectPlaylists and        *)
(*             switchToCorrectPlaylist, on the QueueManager of Spec.       *)
(*   ManagerSpec  PlaylistManager.addToPlaylists, removeFromActivePlaylist *)
(*             and handleTrackRemoval, task by task, with track ids as     *)
(*             character sequences.                                        *)
(*   LikedSpec  PlaylistManager.getAllLikedSongs and its cache.            *)
(*   SeedSpec  QueueDisplay.syncQueueWithActivePlaylist beside addSong.    *)
(*   SearchSpec  the search of the /addsong command and its retries.       *)
(*   ResultSpec  the queue of LiveSpec with tasks that return falsy values.*)
(*   SkipSpec  the loop of the /skip command and the songFinish it emits.  *)
(*   CacheSpec  addToPlaylists calls beside refreshPlaylists.              *)
(***************************************************************************)
EXTENDS Integers, Sequences, FiniteSets, TLC

(***************************************************************************)
(* Bounds                                                                  *)
(***************************************************************************)
MaxOps == 3
MaxLiveOps == 2
MaxSongs == 3
MaxFrames == 1
MaxChecks == 3
MaxCalls == 2
MaxAttempts == 3
MaxPlaylist == 7
MaxLibrary == 5
MaxManagerCalls == 1
MaxSearches == 2
MaxSkip == 3
MaxCacheCalls == 2
MaxPages == 2
PageLimit == 2

(***************************************************************************)
(* QueueManager: constants of the constructor                              *)
(***************************************************************************)
criticalTimeout == 5000
defaultTimeout == 10000
longRunningTimeout == 30000
veryLongRunningTimeout == 60000

\* Descriptions are character sequences, so that String.includes is computed.
criticalOperations ==
  { <<"p", "l", "a", "y">>,
    <<"s", "w", "i", "t", "c", "h", "P", "l", "a", "y", "l", "i", "s", "t">> }

longRunningOperations ==
  { <<"g", "e", "t", "A", "l", "l", "L", "i", "k", "e", "d", "S", "o", "n", "g", "s">>,
    <<"p", "o", "p", "u", "l", "a", "t", "e", "N", "e", "w", "P", "l", "a", "y", "l", "i", "s", "t">> }

veryLongRunningOperations ==
  { <<"a", "d", "d", "M", "u", "l", "t", "i", "p", "l", "e", "R", "a", "n", "d", "o", "m",
      "S", "o", "n", "g", "s", "T", "o", "N", "e", "w", "P", "l", "a", "y", "l", "i", "s", "t">> }

\* Descriptions the callers pass (QueueDisplay.js:642, spotifyAuth.js:1009).
getCurrentlyPlayingDesc ==
  <<"g", "e", "t", "C", "u", "r", "r", "e", "n", "t", "l", "y", "P", "l", "a", "y", "i", "n", "g">>
switchPlaylistActiveDesc ==
  <<"s", "w", "i", "t", "c", "h", "P", "l", "a", "y", "l", "i", "s", "t", "-", "a", "c", "t", "i", "v", "e">>

\* The submissions explored: a default-category operation with and without
\* priority, and the critical switch as switchToActivePlaylist submits it.
Submissions ==
  { << getCurrentlyPlayingDesc, FALSE >>, << getCurrentlyPlayingDesc, TRUE >>,
    << switchPlaylistActiveDesc, TRUE >> }

\* String.prototype.includes
Includes(s, sub) ==
  \E i \in 1..(Len(s) - Len(sub) + 1) : SubSeq(s, i, i + Len(sub) - 1) = sub

\* Mutation: the keyword is compared with === instead of includes.
IsCriticalOperationExact(description) == description \in criticalOperations

\* this.criticalOperations.some(op => description.includes(op))
IsCriticalOperation(description) ==
  \E op \in criticalOperations : Includes(description, op)

getTimeoutForOperation(description) ==
  IF \E op \in criticalOperations : Includes(description, op) THEN criticalTimeout
  ELSE IF \E op \in veryLongRunningOperations : Includes(description, op)
       THEN veryLongRunningTimeout
  ELSE IF \E op \in longRunningOperations : Includes(description, op)
       THEN longRunningTimeout
  ELSE defaultTimeout

(***************************************************************************)
(* JavaScript values that tasks return and callers receive                 *)
(***************************************************************************)
SuccessResult == [t |-> "object", success |-> TRUE, error |-> "none"]
NullValue == [t |-> "null", success |-> FALSE, error |-> "none"]
FailureResult(message) == [t |-> "object", success |-> FALSE, error |-> message]

TrueValue == [t |-> "true"]
FalseValue == [t |-> "false"]

Truthy(v) == v.t \in { "object", "true" }

\* What a task's promise can settle with; thrown reasons are Error objects.
TaskValues == { SuccessResult, NullValue }
TaskErrors == { "task failed" }

Fulfilled(v) == [kind |-> "value", value |-> v, message |-> "none"]
Rejected(m) == [kind |-> "error", value |-> NullValue, message |-> m]
NotSettled == [kind |-> "pending", value |-> NullValue, message |-> "none"]
NoPromise == [kind |-> "none", value |-> NullValue, message |-> "none"]

TaskOutcomes == { Fulfilled(v) : v \in TaskValues } \cup { Rejected(m) : m \in TaskErrors }

\* new Error(`Operation (${description}) timed out`) and its critical twin
TimeoutError(description) ==
  IF IsCriticalOperation(description) THEN "Critical operation timed out"
  ELSE "Operation timed out"

VARIABLES
  submitted,          \* the calls of queueOperation so far: [description, isPriority]
  operationQueue,     \* this.operationQueue, as operation ids
  isProcessingQueue,  \* this.isProcessingQueue
  current,            \* the item processQueue is suspended on (0: no frame suspended)
  task,               \* per operation: the promise operation() returned
  race,               \* per operation: the Promise.race of task and timer
  timer,              \* per operation: the setTimeout of the race
  caller,             \* per operation: the promise queueOperation returned
  invocations,        \* per operation: how often operation() was called
  startOrder,         \* the operations in the order operation() was called
  pendingAtSubmit,    \* per operation: operationQueue when it was submitted
  inflightAtSubmit,   \* per operation: `current` when it was submitted
  songs,              \* SongQueue.songs, as song ids (object references)
  songStore,          \* the Song objects
  created,            \* the number of Song objects constructed
  currentlyPlayingSong, \* QueueDisplay's module variable (0: null)
  now,                \* Date.now()
  finishing,          \* frames of onSongFinish suspended on handleTrackRemoval
  seeding,            \* frames of syncQueueWithActivePlaylist suspended on the remote
  voteResult,         \* how the latest step, if a direct call of vote, ended
  currentlyPlaying,   \* PlaybackManager.currentlyPlaying: the stored snapshot
  checkPc,            \* per call of checkCurrentlyPlaying: where its frame is
  polled,             \* per call: what the remote service answered
  previousTrack,      \* per call: its local previousTrack
  detected,           \* the calls whose test found a transition
  emitted,            \* the events emitted on the client, in order
  accessToken,        \* how often spotifyApi.setAccessToken was given a new token
  callPc,             \* per call of executeWithTokenRefresh: where its frame is
  attempts,           \* per call: how its invocations of operation() ended, in order
  refreshes,          \* per call: how its calls of refreshAccessToken ended, in order
  callResult,         \* per call: the promise executeWithTokenRefresh returned
  newPlaylist,        \* the tracks of the remote 'New Playlist', in position order
  library,            \* the user's saved tracks on the remote service
  taskPc,             \* per operation: where the task of a playlist operation is
  taskItems,          \* per operation: the playlist items its task fetched
  awaited,            \* per operation: the nested operation its task awaits (0: none)
  topLevel,           \* the calls of ensureNewPlaylistHasFiveSongs from outside, in order
  seenAfter,          \* per operation: the playlist when its caller was resolved
  songTimer,          \* QueueDisplay's songTimer: the track it times ("none": no timer)
  remoteTrack,        \* the track the remote player is on
  retired,            \* the track that finished last on the remote player
  due,                \* the signals of that finish that are still to come
  popped,             \* the songs taken off the queue since that finish
  changeLog,          \* the latest spotifyTrackChanged: [previous, head, popped]
  activePlaylist,     \* the tracks of the remote 'Active Stream Playlist', in order
  devices,            \* the user's devices: "none", "idle" (none active) or "live"
  player,             \* the context the remote player plays from ("off": not playing)
  plays,              \* the calls of spotifyApi.play, in order
  activePlaylistTracks, \* PlaylistManager's cache of the active playlist's tracks
  newPlaylistTracks,  \* PlaylistManager's cache of the New Playlist's tracks
  likedSongsCache,    \* PlaylistManager.likedSongsCache
  cacheFresh,         \* whether lastLikedSongsRefresh is less than five minutes ago
  mcalls,             \* the calls of PlaylistManager methods so far, one record each
  issued,             \* the add and remove requests sent to the remote playlists
  lastFetch,          \* the last call of getAllLikedSongs: what it found and returned
  search,             \* the /addsong commands: the position and attempts of each search
  skip                \* the /skip command in progress and what it has done so far

qvars == << submitted, operationQueue, isProcessingQueue, current, task, race, timer,
            caller, invocations, startOrder, pendingAtSubmit, inflightAtSubmit >>

svars == << songs, songStore, created, currentlyPlayingSong, now, finishing, seeding,
            voteResult >>

wvars == << currentlyPlaying, checkPc, polled, previousTrack, detected, emitted >>

avars == << accessToken, callPc, attempts, refreshes, callResult >>

pvars == << newPlaylist, library, taskPc, taskItems, awaited, topLevel, seenAfter >>

fvars == << songTimer, remoteTrack, retired, due, popped, changeLog >>

xvars == << activePlaylist, devices, player, plays >>

mvars == << activePlaylistTracks, newPlaylistTracks, likedSongsCache, cacheFresh, mcalls,
            issued, lastFetch >>

\* What the steps of one component leave alone
cvars == << search, skip >>

notQueue == << svars, wvars, avars, pvars, fvars, xvars, mvars, cvars >>
notSongs == << qvars, wvars, avars, pvars, fvars, xvars, mvars, cvars >>
notWatcher == << qvars, svars, avars, pvars, fvars, xvars, mvars, cvars >>
notAuth == << qvars, svars, wvars, pvars, fvars, xvars, mvars, cvars >>
notPlaylists == << svars, wvars, avars, fvars, xvars, mvars, cvars >>
notFinish == << qvars, wvars, avars, pvars, xvars, mvars, cvars >>
notSwitch == << svars, wvars, avars, fvars, mvars, cvars >>
notManager == << qvars, svars, wvars, avars, fvars, taskPc, taskItems, awaited, topLevel,
                 seenAfter, devices, player, plays, cvars >>
notCommands == << qvars, wvars, avars, pvars, fvars, xvars, mvars >>

vars == << qvars, svars, wvars, avars, pvars, fvars, xvars, mvars, cvars >>

OpIds == 1..MaxOps
SongIds == 1..MaxSongs

\* Users who vote, the one of them who also adds songs, and the bot's own id
\* (client.user.id), under which seeded songs are added
Users == { "u1", "u2" }
Adders == { "u1" }
BotUser == "bot"

\* Track ids of the remote service
Tracks == { "t1", "t2" }

\* What a playlist fetched for seeding can hold
SeedLists == { << "t1" >>, << "t1", "t2" >> }
Submitted == 1..Len(submitted)

SeqToSet(s) == { s[i] : i \in 1..Len(s) }

InitQueue ==
  /\ submitted = << >>
  /\ operationQueue = << >>
  /\ isProcessingQueue = FALSE
  /\ current = 0
  /\ task = [i \in OpIds |-> "none"]
  /\ race = [i \in OpIds |-> NoPromise]
  /\ timer = [i \in OpIds |-> "none"]
  /\ caller = [i \in OpIds |-> NoPromise]
  /\ invocations = [i \in OpIds |-> 0]
  /\ startOrder = << >>
  /\ pendingAtSubmit = [i \in OpIds |-> {}]
  /\ inflightAtSubmit = [i \in OpIds |-> 0]

\* Mutation: isPriority is ignored and every item is pushed.
EnqueueAppendOnly(q, id, isPriority) == Append(q, id)

\* Mutation: every item is unshifted.
EnqueueUnshiftOnly(q, id, isPriority) == << id >> \o q

\* isPriority ? unshift(queueItem) : push(queueItem)
Enqueue(q, id, isPriority) ==
  IF isPriority THEN << id >> \o q ELSE Append(q, id)

\* Mutation: the head is read (queue[0]) but not removed.
ShiftPeek(q) == q

\* this.operationQueue.shift(): the queue that is left
Shift(q) == Tail(q)

\* Mutation: the race has no timer.
ArmTimerNever(id) == "none"

\* The timer Promise.race is given
ArmTimer(id) == "armed"

\* Promise.race([operation(), new Promise(... setTimeout ...)]) for operation id:
\* the task is invoked, the timer armed, and the calling frame suspends.  tk and
\* rc are the tasks and races as the running turn has left them so far.
Invoke(id, tk, rc) ==
  /\ task' = [tk EXCEPT ![id] = "running"]
  /\ race' = [rc EXCEPT ![id] = NotSettled]
  /\ timer' = [timer EXCEPT ![id] = ArmTimer(id)]
  /\ invocations' = [invocations EXCEPT ![id] = @ + 1]
  /\ startOrder' = Append(startOrder, id)

\* Mutation: the flag is cleared as soon as the last pending item is shifted,
\* before its race is awaited.
ProcessQueueLoopEarlyClear(q, tk, rc) ==
  IF Len(q) > 0
  THEN /\ operationQueue' = Shift(q)
       /\ isProcessingQueue' = (Len(Shift(q)) > 0)
       /\ current' = Head(q)
       /\ Invoke(Head(q), tk, rc)
  ELSE /\ operationQueue' = q
       /\ isProcessingQueue' = FALSE
       /\ current' = 0
       /\ task' = tk
       /\ race' = rc
       /\ UNCHANGED << timer, invocations, startOrder >>

\* processQueue from the loop test on, with q the pending list: either the head
\* is shifted and started, or the loop ends and the flag is cleared.
ProcessQueueLoop(q, tk, rc) ==
  IF Len(q) > 0
  THEN /\ operationQueue' = Shift(q)
       /\ isProcessingQueue' = TRUE
       /\ current' = Head(q)
       /\ Invoke(Head(q), tk, rc)
  ELSE /\ operationQueue' = q
       /\ isProcessingQueue' = FALSE
       /\ current' = 0
       /\ task' = tk
       /\ race' = rc
       /\ UNCHANGED << timer, invocations, startOrder >>

\* processQueue(): returns at once if a worker is active
processQueue(q) ==
  IF isProcessingQueue
  THEN /\ operationQueue' = q
       /\ UNCHANGED << isProcessingQueue, current, task, race, timer, invocations, startOrder >>
  ELSE ProcessQueueLoop(q, task, race)

\* queueOperation(operation, description, isPriority), up to its first
\* suspension: what it does to the QueueManager
Submit(description, isPriority) ==
  /\ Len(submitted) < MaxOps
  /\ LET id == Len(submitted) + 1 IN
     /\ submitted' = Append(submitted, [description |-> description, isPriority |-> isPriority])
     /\ caller' = [caller EXCEPT ![id] = NotSettled]
     /\ pendingAtSubmit' = [pendingAtSubmit EXCEPT ![id] = SeqToSet(operationQueue)]
     /\ inflightAtSubmit' = [inflightAtSubmit EXCEPT ![id] = current]
     /\ IF IsCriticalOperation(description)
        THEN /\ Invoke(id, task, race)
             /\ UNCHANGED << operationQueue, isProcessingQueue, current >>
        ELSE IF ~isProcessingQueue
             THEN processQueue(Enqueue(operationQueue, id, isPriority))
             ELSE /\ operationQueue' = Enqueue(operationQueue, id, isPriority)
                  /\ UNCHANGED << isProcessingQueue, current, task, race, timer,
                                  invocations, startOrder >>

\* A call of queueOperation with a task that touches nothing else of the model
queueOperation(description, isPriority) ==
  /\ Submit(description, isPriority)
  /\ UNCHANGED notQueue

\* Mutation: only null and undefined are replaced (result ?? { ... }).
ResolveValueNullish(result) ==
  IF result.t \in { "null", "undefined" } THEN FailureResult("No result returned") ELSE result

\* resolve(result || { success: false, error: 'No result returned' })
ResolveValue(result) ==
  IF Truthy(result) THEN result ELSE FailureResult("No result returned")

\* Mutation: the .catch is missing and the rejection reaches the caller.
CatchHandlerRethrows(outcome) == outcome

\* .catch(error => ({ success: false, error: error.message })) on the queued promise
CatchHandler(outcome) ==
  IF outcome.kind = "error" THEN Fulfilled(FailureResult(outcome.message)) ELSE outcome

\* catch (error) { return { success: false, error: error.message } } of the critical lane
CriticalCatch(outcome) ==
  IF outcome.kind = "error" THEN Fulfilled(FailureResult(outcome.message)) ELSE outcome

\* What the worker hands to the queued promise: resolve(...) or reject(error)
WorkerSettle(outcome) ==
  IF outcome.kind = "value" THEN Fulfilled(ResolveValue(outcome.value)) ELSE outcome

\* Mutation: the catch block rethrows, so a rejected race ends the worker's
\* frame with the flag still set.
WorkerContinueRethrows(outcome, q, tk, rc) ==
  IF outcome.kind = "error"
  THEN /\ operationQueue' = q
       /\ current' = 0
       /\ task' = tk
       /\ race' = rc
       /\ UNCHANGED << isProcessingQueue, timer, invocations, startOrder >>
  ELSE ProcessQueueLoop(q, tk, rc)

\* The rest of a loop iteration once the caller is settled: the catch block has
\* swallowed a rejection, so the while loop tests the pending list again.
WorkerContinue(outcome, q, tk, rc) == ProcessQueueLoop(q, tk, rc)

\* The race of operation id settles with outcome, and the frame awaiting it runs
\* in the same turn of the event loop (promise reactions are microtasks): the
\* critical lane of queueOperation returns to its caller; processQueue settles
\* the caller of its current item and goes round its loop.
RaceSettles(id, outcome, tk) ==
  LET rc == [race EXCEPT ![id] = outcome] IN
  IF IsCriticalOperation(submitted[id].description)
  THEN /\ caller' = [caller EXCEPT ![id] = CriticalCatch(outcome)]
       /\ task' = tk
       /\ race' = rc
       /\ UNCHANGED << operationQueue, isProcessingQueue, current, timer,
                       invocations, startOrder >>
  ELSE /\ caller' = [caller EXCEPT ![id] = CatchHandler(WorkerSettle(outcome))]
       /\ WorkerContinue(outcome, operationQueue, tk, rc)

\* The task of a started operation settles with outcome: what that does to the
\* QueueManager.  If its timer has already won the race, nobody is listening
\* any more.
TaskSettled(id, outcome) ==
  /\ task[id] = "running"
  /\ IF race[id].kind = "pending"
     THEN RaceSettles(id, outcome, [task EXCEPT ![id] = "settled"])
     ELSE /\ task' = [task EXCEPT ![id] = "settled"]
          /\ UNCHANGED << operationQueue, isProcessingQueue, current, race, timer,
                          caller, invocations, startOrder >>
  /\ UNCHANGED << submitted, pendingAtSubmit, inflightAtSubmit >>

\* The task of a started operation settles (it may also never do so).
TaskSettles(id, outcome) ==
  /\ TaskSettled(id, outcome)
  /\ UNCHANGED notQueue

\* The setTimeout callback of an operation rejects its race; the task is left
\* running.  The timer is never cleared, but once the task has won the race the
\* callback changes nothing, so only a firing that finds the race pending is a
\* step.
TimerFired(id) ==
  /\ timer[id] = "armed"
  /\ race[id].kind = "pending"
  /\ RaceSettles(id, Rejected(TimeoutError(submitted[id].description)), task)
  /\ UNCHANGED << submitted, pendingAtSubmit, inflightAtSubmit >>

TimerFires(id) ==
  /\ TimerFired(id)
  /\ UNCHANGED notQueue

(***************************************************************************)
(* SongQueue and the QueueDisplay steps that touch its array                *)
(***************************************************************************)
NoSong == [url |-> "none", addedBy |-> "none", votes |-> 0, voters |-> {}, addedAt |-> 0]

InitSongs ==
  /\ songs = << >>
  /\ songStore = [i \in SongIds |-> NoSong]
  /\ created = 0
  /\ currentlyPlayingSong = 0
  /\ now = 0
  /\ finishing = 0
  /\ seeding = 0
  /\ voteResult = "none"

\* new Song(title, url, addedBy) at time t
NewSong(url, addedBy, t) ==
  [url |-> url, addedBy |-> addedBy, votes |-> 1, voters |-> {addedBy}, addedAt |-> t]

\* The comparator of _sortQueue: negative when a goes before b
Compare(st, a, b) ==
  IF st[b].votes # st[a].votes
  THEN st[b].votes - st[a].votes
  ELSE st[a].addedAt - st[b].addedAt

\* x goes before the first element it is strictly smaller than (stable)
RECURSIVE InsertStable(_, _, _)
InsertStable(st, sorted, x) ==
  IF sorted = << >> THEN << x >>
  ELSE IF Compare(st, x, Head(sorted)) < 0 THEN << x >> \o sorted
  ELSE << Head(sorted) >> \o InsertStable(st, Tail(sorted), x)

RECURSIVE SortFrom(_, _, _)
SortFrom(st, sorted, rest) ==
  IF rest = << >> THEN sorted
  ELSE SortFrom(st, InsertStable(st, sorted, Head(rest)), Tail(rest))

\* Mutation: the array is left as it is.
SortQueueMissing(st, q) == q

\* _sortQueue(): Array.prototype.sort is stable
SortQueue(st, q) == SortFrom(st, << >>, q)

\* songQueue.addSong for each url of items in turn, all created at time t
RECURSIVE AddAll(_, _, _, _, _, _)
AddAll(st, q, n, items, addedBy, t) ==
  IF items = << >> THEN [st |-> st, q |-> q, n |-> n]
  ELSE LET st1 == [st EXCEPT ![n + 1] = NewSong(Head(items), addedBy, t)]
       IN AddAll(st1, SortQueue(st1, Append(q, n + 1)), n + 1, Tail(items), addedBy, t)

\* SongQueue.addSong(title, url, userId) from the addsong command; the clock has
\* moved on since the last song was constructed
addSong(url, userId) ==
  /\ created < MaxSongs
  /\ LET r == AddAll(songStore, songs, created, << url >>, userId, now + 1) IN
     /\ songStore' = r.st
     /\ songs' = r.q
     /\ created' = r.n
  /\ now' = now + 1
  /\ UNCHANGED << currentlyPlayingSong, finishing, seeding >>
  /\ voteResult' = "none"
  /\ UNCHANGED notSongs

\* Mutation: the voters check is missing.
AlreadyVotedNever(song, userId) == FALSE

\* song.voters.has(userId)
AlreadyVoted(song, userId) == userId \in song.voters

\* throw new Error('Invalid song index')
InvalidIndex == "throws"

\* SongQueue.vote(songIndex, userId), songIndex counted from 0, on the array q
\* and the Song objects st: how the call ends and what it leaves.  An index out
\* of range throws and a repeated vote returns false, both before any change.
VoteCall(st, q, songIndex, userId) ==
  IF songIndex < 0 \/ songIndex >= Len(q)
  THEN [result |-> InvalidIndex, st |-> st, q |-> q]
  ELSE LET id == q[songIndex + 1] IN
       IF AlreadyVoted(st[id], userId)
       THEN [result |-> "false", st |-> st, q |-> q]
       ELSE LET st1 == [st EXCEPT ![id].votes = @ + 1,
                                  ![id].voters = @ \cup {userId}]
            IN [result |-> "true", st |-> st1, q |-> SortQueue(st1, q)]

\* A call of SongQueue.vote whose outcome the caller looks at
vote(songIndex, userId) ==
  /\ LET r == VoteCall(songStore, songs, songIndex, userId) IN
     /\ songStore' = r.st
     /\ songs' = r.q
     /\ voteResult' = r.result
  /\ UNCHANGED << created, currentlyPlayingSong, now, finishing, seeding >>
  /\ UNCHANGED notSongs

\* QueueDisplay.handleReaction for a vote emoji of a user who is not a bot: the
\* vote is cast and a throw is caught and logged.
handleReaction(emojiIndex, userId) ==
  /\ LET r == VoteCall(songStore, songs, emojiIndex, userId) IN
     /\ songStore' = r.st
     /\ songs' = r.q
  /\ voteResult' = "none"
  /\ UNCHANGED << created, currentlyPlayingSong, now, finishing, seeding >>
  /\ UNCHANGED notSongs

\* Song objects that neither the array nor currentlyPlayingSong refers to any
\* more are garbage.
Collect(st, q, playing) ==
  [i \in SongIds |-> IF i \in SeqToSet(q) \/ i = playing THEN st[i] ELSE NoSong]

\* SongQueue.removeFirst() as the skip command calls it
removeFirst ==
  /\ songs # << >>
  /\ songs' = Tail(songs)
  /\ songStore' = Collect(songStore, Tail(songs), currentlyPlayingSong)
  /\ UNCHANGED << created, currentlyPlayingSong, now, finishing, seeding >>
  /\ voteResult' = "none"
  /\ UNCHANGED notSongs

\* syncQueueWithActivePlaylist up to its first await: an empty queue makes it
\* fetch the playlists, leaving a frame suspended on the remote calls.
SeedCheck(q, frames) == IF Len(q) = 0 THEN frames + 1 ELSE frames

\* QueueDisplay.onSongFinish up to its first await, q being the queue it finds.
\* A removed song suspends the frame on handleTrackRemoval; with nothing
\* removed the frame runs on.
onSongFinishFrom(q) ==
  /\ finishing < MaxFrames
  /\ seeding < MaxFrames
  /\ IF q # << >>
     THEN /\ songs' = Tail(q)
          /\ songStore' = Collect(songStore, Tail(q), currentlyPlayingSong)
          /\ finishing' = finishing + 1
          /\ UNCHANGED << currentlyPlayingSong, seeding >>
     ELSE /\ currentlyPlayingSong' = 0
          /\ songStore' = Collect(songStore, q, 0)
          /\ seeding' = SeedCheck(q, seeding)
          /\ songs' = q
          /\ UNCHANGED finishing
  /\ UNCHANGED << created, now >>
  /\ voteResult' = "none"

\* QueueDisplay.onSongFinish called on the queue as it is
onSongFinishCall == onSongFinishFrom(songs)

\* A call of QueueDisplay.onSongFinish
onSongFinish ==
  /\ onSongFinishCall
  /\ UNCHANGED notSongs

\* onSongFinish after handleTrackRemoval: the head becomes the playing song, or
\* the empty queue is seeded.
onSongFinishResume ==
  /\ finishing > 0
  /\ seeding < MaxFrames
  /\ finishing' = finishing - 1
  /\ IF Len(songs) > 0
     THEN /\ currentlyPlayingSong' = songs[1]
          /\ UNCHANGED seeding
     ELSE /\ currentlyPlayingSong' = 0
          /\ seeding' = SeedCheck(songs, seeding)
  /\ songStore' = Collect(songStore, songs, currentlyPlayingSong')
  /\ UNCHANGED << songs, created, now >>
  /\ voteResult' = "none"
  /\ UNCHANGED notSongs

\* syncQueueWithActivePlaylist as initialize calls it
syncQueueWithActivePlaylist ==
  /\ seeding < MaxFrames
  /\ songs = << >>
  /\ seeding' = SeedCheck(songs, seeding)
  /\ UNCHANGED << songs, songStore, created, currentlyPlayingSong, now, finishing >>
  /\ voteResult' = "none"
  /\ UNCHANGED notSongs

\* syncQueueWithActivePlaylist after its remote calls.  source tells which
\* playlist had tracks: the active one (the queue is cleared first), else the
\* New Playlist (the queue is kept), else none.  The loop constructs its songs
\* within one tick of the clock.
seedFill(source, items) ==
  /\ seeding > 0
  /\ seeding' = seeding - 1
  /\ IF source = "none"
     THEN UNCHANGED << songs, songStore, created, currentlyPlayingSong, now >>
     ELSE /\ created + Len(items) <= MaxSongs
          /\ LET q0 == IF source = "active" THEN << >> ELSE songs
                 r == AddAll(songStore, q0, created, items, BotUser, now + 1)
             IN /\ songStore' = Collect(r.st, r.q, r.q[1])
                /\ songs' = r.q
                /\ created' = r.n
                /\ currentlyPlayingSong' = r.q[1]
          /\ now' = now + 1
  /\ UNCHANGED finishing
  /\ voteResult' = "none"
  /\ UNCHANGED notSongs

\* song.url.match(/spotify\.com\/track\/([a-zA-Z0-9]+)/)[1]
TrackIdOf(song) == song.url

\* the index (from 1) of the first song of q whose track id is trackId, or 0
FindIndex(st, q, trackId) ==
  IF \E i \in 1..Len(q) : TrackIdOf(st[q[i]]) = trackId
  THEN CHOOSE i \in 1..Len(q) :
         /\ TrackIdOf(st[q[i]]) = trackId
         /\ \A j \in 1..(i - 1) : TrackIdOf(st[q[j]]) # trackId
  ELSE 0

\* queue.splice(index, 1)
Splice(q, i) == SubSeq(q, 1, i - 1) \o SubSeq(q, i + 1, Len(q))

\* QueueDisplay.syncWithSpotify(spotifyTrack)
syncWithSpotify(trackId) ==
  /\ songs # << >>
  /\ ~(currentlyPlayingSong # 0 /\ TrackIdOf(songStore[currentlyPlayingSong]) = trackId)
  /\ LET foundIndex == FindIndex(songStore, songs, trackId) IN
     /\ foundIndex # 0
     /\ IF foundIndex = 1
        THEN /\ currentlyPlayingSong' = songs[1]
             /\ UNCHANGED songs
        ELSE /\ songs' = IF currentlyPlayingSong # 0
                         THEN << currentlyPlayingSong >> \o Splice(songs, foundIndex)
                         ELSE Splice(songs, foundIndex)
             /\ currentlyPlayingSong' = songs[foundIndex]
  /\ songStore' = Collect(songStore, songs', currentlyPlayingSong')
  /\ UNCHANGED << created, now, finishing, seeding >>
  /\ voteResult' = "none"
  /\ UNCHANGED notSongs

(***************************************************************************)
(* A track finishes: the song timer and the spotifyTrackChanged handler    *)
(***************************************************************************)
InitFinish ==
  /\ songTimer = "none"
  /\ remoteTrack = "t1"
  /\ retired = "none"
  /\ due = {}
  /\ popped = 0
  /\ changeLog = [previous |-> "none", head |-> "none", popped |-> FALSE]

\* PlaybackManager keeps no state of its own about the player; this is the
\* remote service before anything is known of it
InitSwitch ==
  /\ activePlaylist = << >>
  /\ devices = "none"
  /\ player = "off"
  /\ plays = << >>

SearchIds == 1..MaxSearches

\* No command has been issued
InitCommands ==
  /\ search = [c \in SearchIds |-> [pc |-> "idle", attempt |-> 0, log |-> << >>,
                                     result |-> NoPromise]]
  /\ skip = [pc |-> "idle", i |-> 0, count |-> 0, hasId |-> FALSE, reported |-> 0, popped |-> 0]

\* new PlaylistManager()
InitManager ==
  /\ activePlaylistTracks = << >>
  /\ newPlaylistTracks = << >>
  /\ likedSongsCache = << >>
  /\ cacheFresh = FALSE
  /\ mcalls = << >>
  /\ issued = {}
  /\ lastFetch = [called |-> FALSE, failed |-> FALSE, cacheBefore |-> << >>, returned |-> << >>]

\* The track of the song at the head of the queue ("none": empty queue)
HeadTrack == IF songs = << >> THEN "none" ELSE TrackIdOf(songStore[songs[1]])

\* QueueDisplay.startPlayingSong after an addsong command: the head becomes the
\* playing song and startSongTimer arms a timer with the duration of its track
startPlayingSong ==
  /\ songs # << >>
  /\ currentlyPlayingSong' = songs[1]
  /\ songStore' = Collect(songStore, songs, songs[1])
  /\ songTimer' = HeadTrack
  /\ voteResult' = "none"
  /\ UNCHANGED << songs, created, now, finishing, seeding >>
  /\ UNCHANGED << remoteTrack, retired, due, popped, changeLog >>
  /\ UNCHANGED notFinish

\* The remote player finishes its track and goes on to track cur.  The poll
\* will find the transition; the song timer comes due if it timed this track.
trackFinishes(cur) ==
  /\ due = {}
  /\ cur # remoteTrack
  /\ retired' = remoteTrack
  /\ remoteTrack' = cur
  /\ due' = {"spotifyTrackChanged"}
               \cup (IF songTimer = remoteTrack THEN {"songFinish"} ELSE {})
  /\ popped' = 0
  /\ UNCHANGED << songTimer, changeLog >>
  /\ UNCHANGED svars
  /\ UNCHANGED notFinish

\* The timer's callback emits songFinish and the handler calls onSongFinish
songFinish ==
  /\ "songFinish" \in due
  /\ due' = due \ {"songFinish"}
  /\ songTimer' = "none"
  /\ onSongFinishCall
  /\ popped' = popped + Len(songs) - Len(songs')
  /\ UNCHANGED << remoteTrack, retired, changeLog >>
  /\ UNCHANGED notFinish

\* The handler of spotifyTrackChanged(previousTrack, currentTrack) at its call
\* of QueueDisplay.onSongFinish, the remote removals of previousTrack behind it
spotifyTrackChanged(prev, cur) ==
  /\ "spotifyTrackChanged" \in due
  /\ prev = retired /\ cur = remoteTrack
  /\ due' = due \ {"spotifyTrackChanged"}
  /\ onSongFinishCall
  /\ popped' = popped + Len(songs) - Len(songs')
  /\ changeLog' = [previous |-> prev, head |-> HeadTrack,
                   popped |-> Len(songs') < Len(songs)]
  /\ UNCHANGED << songTimer, remoteTrack, retired >>
  /\ UNCHANGED notFinish

(***************************************************************************)
(* PlaybackManager: the poll that watches the remote player                *)
(***************************************************************************)
CheckIds == 1..MaxChecks

\* progress_ms values a poll can see
Progress == { 0, 1 }

\* The object the task of getCurrentlyPlaying builds from data.body.item.  Every
\* track of the remote service has an artist.
Track(id, progress_ms) ==
  [t |-> "object", id |-> id, progress_ms |-> progress_ms]

IsTrack(v) == "id" \in DOMAIN v

\* What the task of getCurrentlyPlaying returns: a track object, or null when
\* nothing is playing or the remote call failed
TaskAnswers == { Track(id, pr) : id \in Tracks, pr \in Progress } \cup { NullValue }

\* How the race of the queued operation ends: the task's answer, or its timer
PollOutcomes ==
  { Fulfilled(v) : v \in TaskAnswers }
    \cup { Rejected(TimeoutError(getCurrentlyPlayingDesc)) }

\* await this.getCurrentlyPlaying(): what queueOperation resolves its caller with
getCurrentlyPlaying(outcome) == CatchHandler(WorkerSettle(outcome)).value

\* A value as one object of the heap: by is the call that received it
Snapshot(by, value) == [by |-> by, value |-> value]
NoSnapshot == Snapshot(0, NullValue)

\* x.id of a JavaScript object
IdOf(v) == IF "id" \in DOMAIN v THEN v.id ELSE "undefined"

\* Mutation: the objects themselves are compared.
IsTransitionByObject(stored, by, currentTrack) ==
  ~Truthy(stored.value) \/ stored.by # by

\* !this.currentlyPlaying || this.currentlyPlaying.id !== currentTrack.id
IsTransition(stored, by, currentTrack) ==
  ~Truthy(stored.value) \/ IdOf(stored.value) # IdOf(currentTrack)

TrackChanged(by, prev, cur) ==
  [name |-> "spotifyTrackChanged", by |-> by, previous |-> prev, current |-> cur]
NowPlaying(by, cur) ==
  [name |-> "spotifyNowPlaying", by |-> by, previous |-> NoSnapshot, current |-> cur]

\* console.log(... currentTrack.artists[0].name ...) and the emit after it: an
\* object without artists makes the log line throw a TypeError, which the
\* catch of checkCurrentlyPlaying logs.
Announce(log, by, cur) ==
  IF IsTrack(cur.value) THEN Append(log, NowPlaying(by, cur)) ELSE log

InitWatcher ==
  /\ currentlyPlaying = NoSnapshot
  /\ checkPc = [c \in CheckIds |-> "idle"]
  /\ polled = [c \in CheckIds |-> NotSettled]
  /\ previousTrack = [c \in CheckIds |-> NoSnapshot]
  /\ detected = {}
  /\ emitted = << >>

\* checkCurrentlyPlaying() as the interval or startPolling calls it, up to
\* await this.getCurrentlyPlaying()
checkCurrentlyPlaying(c) ==
  /\ checkPc[c] = "idle"
  /\ \A b \in CheckIds : b < c => checkPc[b] # "idle"
  /\ checkPc' = [checkPc EXCEPT ![c] = "fetching"]
  /\ UNCHANGED << currentlyPlaying, polled, previousTrack, detected, emitted >>
  /\ UNCHANGED notWatcher

\* The call resumes with the answer.  The operation queue resolves its callers
\* in the order they queued.
checkResumes(c, outcome) ==
  /\ checkPc[c] = "fetching"
  /\ \A b \in CheckIds : b < c => checkPc[b] # "fetching"
  /\ polled' = [polled EXCEPT ![c] = outcome]
  /\ LET currentTrack == getCurrentlyPlaying(outcome)
         cur == Snapshot(c, currentTrack)
     IN IF ~Truthy(currentTrack)
        THEN /\ checkPc' = [checkPc EXCEPT ![c] = "done"]
             /\ UNCHANGED << currentlyPlaying, previousTrack, detected, emitted >>
        ELSE IF ~IsTransition(currentlyPlaying, c, currentTrack)
        THEN /\ checkPc' = [checkPc EXCEPT ![c] = "done"]
             /\ UNCHANGED << currentlyPlaying, previousTrack, detected, emitted >>
        ELSE /\ previousTrack' = [previousTrack EXCEPT ![c] = currentlyPlaying]
             /\ detected' = detected \cup {c}
             /\ currentlyPlaying' = cur
             /\ IF Truthy(currentlyPlaying.value)
                THEN /\ checkPc' = [checkPc EXCEPT ![c] = "removing"]
                     /\ UNCHANGED emitted
                ELSE /\ checkPc' = [checkPc EXCEPT ![c] = "done"]
                     /\ emitted' = Announce(emitted, c, cur)
  /\ UNCHANGED notWatcher

\* await playlistManager.removeFromActivePlaylist(previousTrack.id) is over,
\* whether it succeeded or not: the events are emitted.
checkEmits(c) ==
  /\ checkPc[c] = "removing"
  /\ \A b \in CheckIds : b < c => checkPc[b] # "removing"
  /\ LET cur == Snapshot(c, getCurrentlyPlaying(polled[c])) IN
     emitted' = Announce(Append(emitted, TrackChanged(c, previousTrack[c], cur)),
                         c, cur)
  /\ checkPc' = [checkPc EXCEPT ![c] = "done"]
  /\ UNCHANGED << currentlyPlaying, polled, previousTrack, detected >>
  /\ UNCHANGED notWatcher

WatchNext ==
  \/ \E c \in CheckIds : checkCurrentlyPlaying(c)
  \/ \E c \in CheckIds, o \in PollOutcomes : checkResumes(c, o)
  \/ \E c \in CheckIds : checkEmits(c)

(***************************************************************************)
(* AuthManager: executeWithTokenRefresh                                    *)
(***************************************************************************)
CallIds == 1..MaxCalls

\* An error of the remote service, as spotify-web-api-node throws it
ApiError(statusCode) ==
  [kind |-> "error", value |-> NullValue, message |-> "api", statusCode |-> statusCode]

\* An error without statusCode: readFileSync or writeFile on .env failed
FsError == Rejected("fs")

\* How an invocation of the wrapped operation can end
OperationOutcomes == { Fulfilled(SuccessResult), ApiError(401), ApiError(500) }

\* How refreshAccessToken can end: done, the remote refused (rethrown before the
\* token is set), or the .env file failed (rethrown after the token is set)
RefreshOutcomes == { Fulfilled(NullValue), ApiError(400), FsError }

\* Mutation: any error with a status code counts.
IsAuthErrorAnyStatus(error) == "statusCode" \in DOMAIN error

\* error.statusCode === 401
IsAuthError(error) == "statusCode" \in DOMAIN error /\ error.statusCode = 401

\* Mutation: the retry is awaited but its value is not returned.
RetryResultDropped(outcome) ==
  IF outcome.kind = "value" THEN Fulfilled(NullValue) ELSE outcome

\* return await operation() in the catch block: the retry's outcome is the call's
RetryResult(outcome) == outcome

\* Mutation: the retry goes through executeWithTokenRefresh again.
AfterRetryRecursive(outcome) ==
  IF outcome.kind = "error" /\ IsAuthError(outcome) THEN "refreshing" ELSE "done"

\* The retry is not inside a try block: whatever it does ends the call
AfterRetry(outcome) == "done"

InitAuth ==
  /\ accessToken = 0
  /\ callPc = [c \in CallIds |-> "idle"]
  /\ attempts = [c \in CallIds |-> << >>]
  /\ refreshes = [c \in CallIds |-> << >>]
  /\ callResult = [c \in CallIds |-> NoPromise]

\* executeWithTokenRefresh(operation) up to await operation()
executeWithTokenRefresh(c) ==
  /\ callPc[c] = "idle"
  /\ callPc' = [callPc EXCEPT ![c] = "operation"]
  /\ callResult' = [callResult EXCEPT ![c] = NotSettled]
  /\ UNCHANGED << accessToken, attempts, refreshes >>
  /\ UNCHANGED notAuth

\* The first invocation settles: its value is returned, an authorization error
\* starts refreshAccessToken, any other error is rethrown.
operationSettles(c, outcome) ==
  /\ callPc[c] = "operation"
  /\ attempts' = [attempts EXCEPT ![c] = Append(@, outcome)]
  /\ IF outcome.kind = "value"
     THEN /\ callPc' = [callPc EXCEPT ![c] = "done"]
          /\ callResult' = [callResult EXCEPT ![c] = outcome]
     ELSE IF IsAuthError(outcome)
     THEN /\ callPc' = [callPc EXCEPT ![c] = "refreshing"]
          /\ UNCHANGED callResult
     ELSE /\ callPc' = [callPc EXCEPT ![c] = "done"]
          /\ callResult' = [callResult EXCEPT ![c] = outcome]
  /\ UNCHANGED << accessToken, refreshes >>
  /\ UNCHANGED notAuth

\* await this.refreshAccessToken() settles: the operation is invoked again, or
\* the error of the refresh leaves the catch block.
refreshSettles(c, outcome) ==
  /\ callPc[c] = "refreshing"
  /\ Len(attempts[c]) < MaxAttempts
  /\ refreshes' = [refreshes EXCEPT ![c] = Append(@, outcome)]
  /\ accessToken' = IF outcome = ApiError(400) THEN accessToken ELSE accessToken + 1
  /\ IF outcome.kind = "value"
     THEN /\ callPc' = [callPc EXCEPT ![c] = "retry"]
          /\ UNCHANGED callResult
     ELSE /\ callPc' = [callPc EXCEPT ![c] = "done"]
          /\ callResult' = [callResult EXCEPT ![c] = outcome]
  /\ UNCHANGED attempts
  /\ UNCHANGED notAuth

\* The second invocation settles
retrySettles(c, outcome) ==
  /\ callPc[c] = "retry"
  /\ attempts' = [attempts EXCEPT ![c] = Append(@, outcome)]
  /\ callPc' = [callPc EXCEPT ![c] = AfterRetry(outcome)]
  /\ callResult' = [callResult EXCEPT ![c] =
                      IF AfterRetry(outcome) = "done" THEN RetryResult(outcome) ELSE @]
  /\ UNCHANGED << accessToken, refreshes >>
  /\ UNCHANGED notAuth

AuthNext ==
  \/ \E c \in CallIds : executeWithTokenRefresh(c)
  \/ \E c \in CallIds, o \in OperationOutcomes : operationSettles(c, o)
  \/ \E c \in CallIds, o \in RefreshOutcomes : refreshSettles(c, o)
  \/ \E c \in CallIds, o \in OperationOutcomes : retrySettles(c, o)

(***************************************************************************)
(* PlaylistManager: the New Playlist and its five songs                    *)
(***************************************************************************)
\* const targetCount = 5
targetCount == 5

ensureDesc ==
  <<"e", "n", "s", "u", "r", "e", "N", "e", "w", "P", "l", "a", "y", "l", "i", "s", "t",
    "H", "a", "s", "F", "i", "v", "e", "S", "o", "n", "g", "s">>
\* `populateNewPlaylist-${playlistId}` for the id of the New Playlist
populateDesc ==
  <<"p", "o", "p", "u", "l", "a", "t", "e", "N", "e", "w", "P", "l", "a", "y", "l", "i", "s", "t",
    "-", "0", "z", "s", "h", "s", "y", "T", "o", "i", "Y", "O", "1", "j", "l", "K", "S", "H",
    "b", "7", "b", "T", "U">>
likedDesc ==
  <<"g", "e", "t", "A", "l", "l", "L", "i", "k", "e", "d", "S", "o", "n", "g", "s">>
ensurePlayingDesc ==
  <<"e", "n", "s", "u", "r", "e", "P", "l", "a", "y", "i", "n", "g", "F", "r", "o", "m",
    "C", "o", "r", "r", "e", "c", "t", "P", "l", "a", "y", "l", "i", "s", "t", "s">>
switchDesc ==
  <<"s", "w", "i", "t", "c", "h", "T", "o", "C", "o", "r", "r", "e", "c", "t", "P", "l",
    "a", "y", "l", "i", "s", "t">>

\* The tracks 1..n in order
Ident(n) == [i \in 1..n |-> i]

\* Libraries: saved tracks are pairwise distinct
Libraries == { Ident(m) : m \in 0..MaxLibrary }

\* What the New Playlist can hold when a call arrives.  A playlist may hold a
\* track twice: the shortfall is added without a look at what is there, and two
\* overlapping calls each add their own.
InitialPlaylists ==
  { Ident(n) : n \in 0..MaxPlaylist }
    \cup { Ident(targetCount) \o Ident(n - targetCount) : n \in (targetCount + 1)..MaxPlaylist }

\* JavaScript values of this component
PlaylistObject == [t |-> "object", name |-> "New Playlist"]
PopulateResult(trackCount) == [t |-> "object", trackCount |-> trackCount]
ArrayOf(items) == [t |-> "object", items |-> items]
IsArray(v) == "items" \in DOMAIN v

\* removeTracksFromPlaylist(id, [{ uri }, ...]): the request names tracks, not
\* positions, and the service removes every item of a named track
RemoveTracks(items, uris) == SelectSeq(items, LAMBDA x : x \notin uris)

\* shuffleArray followed by slice(0, k): any k of the items in any order
Shuffled(items, k) ==
  LET n == IF k < Len(items) THEN k ELSE Len(items) IN
  { [i \in 1..n |-> items[f[i]]] :
      f \in { g \in [1..n -> 1..Len(items)] : \A i, j \in 1..n : i # j => g[i] # g[j] } }

\* Which method queued operation id
KindOf(id) ==
  IF submitted[id].description = ensureDesc THEN "ensure"
  ELSE IF submitted[id].description = populateDesc THEN "populate"
  ELSE IF submitted[id].description = likedDesc THEN "liked"
  ELSE IF submitted[id].description = ensurePlayingDesc THEN "ensurePlaying"
  ELSE IF submitted[id].description = switchDesc THEN "switch"
  ELSE "other"

NotSeen == << 0 >>

\* The callers that this step resolves see the playlist as the step leaves it
See(cl, pl) ==
  [i \in OpIds |-> IF caller[i].kind = "pending" /\ cl[i].kind = "value"
                   THEN pl ELSE seenAfter[i]]

InitPlaylists ==
  /\ newPlaylist = << >>
  /\ library = << >>
  /\ taskPc = [i \in OpIds |-> "start"]
  /\ taskItems = [i \in OpIds |-> << >>]
  /\ awaited = [i \in OpIds |-> 0]
  /\ topLevel = << >>
  /\ seenAfter = [i \in OpIds |-> NotSeen]

\* A task queues a nested operation and suspends on its promise
AwaitNested(id, description, pc) ==
  /\ Submit(description, FALSE)
  /\ awaited' = [awaited EXCEPT ![id] = Len(submitted) + 1]
  /\ taskPc' = [taskPc EXCEPT ![id] = pc]

\* The task of operation id returns value
Return(id, value) ==
  /\ TaskSettled(id, Fulfilled(value))
  /\ taskPc' = [taskPc EXCEPT ![id] = "done"]

\* ensureNewPlaylistHasFiveSongs() called from outside, after the calls before
\* it have returned
ensureNewPlaylistHasFiveSongs ==
  /\ \A i \in 1..Len(topLevel) : caller[topLevel[i]].kind = "value"
  /\ Submit(ensureDesc, FALSE)
  /\ topLevel' = Append(topLevel, Len(submitted) + 1)
  /\ UNCHANGED << newPlaylist, library, taskPc, taskItems, awaited, seenAfter >>
  /\ UNCHANGED notPlaylists

\* The task of ensureNewPlaylistHasFiveSongs up to the branch on currentCount.
\* The New Playlist exists and the remote calls succeed.
ensureReads(id) ==
  /\ id \in Submitted /\ KindOf(id) = "ensure"
  /\ task[id] = "running" /\ taskPc[id] = "start"
  /\ taskItems' = [taskItems EXCEPT ![id] = newPlaylist]
  /\ IF Len(newPlaylist) = 0
     THEN AwaitNested(id, populateDesc, "awaitPopulate")
     ELSE IF Len(newPlaylist) < targetCount
     THEN AwaitNested(id, likedDesc, "awaitLiked")
     ELSE /\ taskPc' = [taskPc EXCEPT ![id] = "read"]
          /\ UNCHANGED << qvars, awaited >>
  /\ UNCHANGED << newPlaylist, library, topLevel, seenAfter >>
  /\ UNCHANGED notPlaylists

\* currentCount >= targetCount: the items from position targetCount on are
\* removed, if any, and the task returns newPlaylist
ensureTrims(id) ==
  /\ id \in Submitted /\ KindOf(id) = "ensure"
  /\ taskPc[id] = "read"
  /\ newPlaylist' =
       RemoveTracks(newPlaylist,
                    SeqToSet(SubSeq(taskItems[id], targetCount + 1, Len(taskItems[id]))))
  /\ Return(id, PlaylistObject)
  /\ seenAfter' = See(caller', newPlaylist')
  /\ UNCHANGED << library, taskItems, awaited, topLevel >>
  /\ UNCHANGED notPlaylists

\* currentCount < targetCount, getAllLikedSongs has returned: a failure object
\* has no slice (TypeError, caught, null); no liked songs returns newPlaylist;
\* otherwise the shortfall is added
ensureAdds(id) ==
  /\ id \in Submitted /\ KindOf(id) = "ensure"
  /\ task[id] = "running" /\ taskPc[id] = "awaitLiked"
  /\ caller[awaited[id]].kind = "value"
  /\ LET likedSongs == caller[awaited[id]].value
         songsNeeded == targetCount - Len(taskItems[id])
     IN IF ~IsArray(likedSongs)
        THEN /\ UNCHANGED newPlaylist
             /\ Return(id, NullValue)
        ELSE IF Len(likedSongs.items) = 0
        THEN /\ UNCHANGED newPlaylist
             /\ Return(id, PlaylistObject)
        ELSE /\ \E picks \in Shuffled(likedSongs.items, songsNeeded) :
                  newPlaylist' = newPlaylist \o picks
             /\ Return(id, PlaylistObject)
  /\ seenAfter' = See(caller', newPlaylist')
  /\ UNCHANGED << library, taskItems, awaited, topLevel >>
  /\ UNCHANGED notPlaylists

\* currentCount = 0: return await this.populateNewPlaylist(newPlaylist.id)
ensureReturnsPopulated(id) ==
  /\ id \in Submitted /\ KindOf(id) = "ensure"
  /\ task[id] = "running" /\ taskPc[id] = "awaitPopulate"
  /\ caller[awaited[id]].kind = "value"
  /\ Return(id, caller[awaited[id]].value)
  /\ seenAfter' = See(caller', newPlaylist)
  /\ UNCHANGED << newPlaylist, library, taskItems, awaited, topLevel >>
  /\ UNCHANGED notPlaylists

\* The task of populateNewPlaylist up to await this.getAllLikedSongs(): the
\* tracks that are there are removed
populateClears(id) ==
  /\ id \in Submitted /\ KindOf(id) = "populate"
  /\ task[id] = "running" /\ taskPc[id] = "start"
  /\ taskItems' = [taskItems EXCEPT ![id] = newPlaylist]
  /\ newPlaylist' = RemoveTracks(newPlaylist, SeqToSet(newPlaylist))
  /\ AwaitNested(id, likedDesc, "awaitLiked")
  /\ UNCHANGED << library, topLevel, seenAfter >>
  /\ UNCHANGED notPlaylists

\* getAllLikedSongs has returned to populateNewPlaylist: up to five shuffled
\* tracks are added in one batch
populateAdds(id) ==
  /\ id \in Submitted /\ KindOf(id) = "populate"
  /\ task[id] = "running" /\ taskPc[id] = "awaitLiked"
  /\ caller[awaited[id]].kind = "value"
  /\ LET allSavedTracks == caller[awaited[id]].value IN
     IF ~IsArray(allSavedTracks)
     THEN /\ UNCHANGED newPlaylist
          /\ Return(id, NullValue)
     ELSE IF Len(allSavedTracks.items) = 0
     THEN /\ UNCHANGED newPlaylist
          /\ Return(id, NullValue)
     ELSE /\ \E picks \in Shuffled(allSavedTracks.items, 5) :
               newPlaylist' = newPlaylist \o picks
          /\ Return(id, PopulateResult(Len(newPlaylist')))
  /\ seenAfter' = See(caller', newPlaylist')
  /\ UNCHANGED << library, taskItems, awaited, topLevel >>
  /\ UNCHANGED notPlaylists

\* The task of getAllLikedSongs returns the saved tracks
getAllLikedSongs(id) ==
  /\ id \in Submitted /\ KindOf(id) = "liked"
  /\ taskPc[id] = "start"
  /\ Return(id, ArrayOf(library))
  /\ seenAfter' = See(caller', newPlaylist)
  /\ UNCHANGED << newPlaylist, library, taskItems, awaited, topLevel >>
  /\ UNCHANGED notPlaylists

\* The timer of a playlist operation fires
playlistTimerFires(id) ==
  /\ TimerFired(id)
  /\ seenAfter' = See(caller', newPlaylist)
  /\ UNCHANGED << newPlaylist, library, taskPc, taskItems, awaited, topLevel >>
  /\ UNCHANGED notPlaylists

PlaylistNext ==
  \/ ensureNewPlaylistHasFiveSongs
  \/ \E id \in OpIds : ensureReads(id)
  \/ \E id \in OpIds : ensureTrims(id)
  \/ \E id \in OpIds : ensureAdds(id)
  \/ \E id \in OpIds : ensureReturnsPopulated(id)
  \/ \E id \in OpIds : populateClears(id)
  \/ \E id \in OpIds : populateAdds(id)
  \/ \E id \in OpIds : getAllLikedSongs(id)
  \/ \E id \in OpIds : playlistTimerFires(id)

\* The playlist and the library as a call can find them
PlaylistInit ==
  /\ InitQueue /\ InitSongs /\ InitWatcher /\ InitAuth /\ InitFinish /\ InitSwitch
  /\ InitManager /\ InitCommands
  /\ newPlaylist \in InitialPlaylists
  /\ library \in Libraries
  /\ taskPc = [i \in OpIds |-> "start"]
  /\ taskItems = [i \in OpIds |-> << >>]
  /\ awaited = [i \in OpIds |-> 0]
  /\ topLevel = << >>
  /\ seenAfter = [i \in OpIds |-> NotSeen]

PlaylistSpec == PlaylistInit /\ [][PlaylistNext]_vars

(***************************************************************************)
(* PlaybackManager: which playlist the remote player plays from            *)
(***************************************************************************)
\* ensurePlayingFromCorrectPlaylists() with no forced playlist, called from outside
ensurePlayingFromCorrectPlaylists ==
  /\ Submit(ensurePlayingDesc, FALSE)
  /\ UNCHANGED pvars
  /\ UNCHANGED xvars
  /\ UNCHANGED notSwitch

\* The task of ensurePlayingFromCorrectPlaylists: no playback or no device
\* switches; playback from one of the two playlists returns true; playback
\* from anything else switches
ensurePlayingChecks(id) ==
  /\ id \in Submitted /\ KindOf(id) = "ensurePlaying"
  /\ task[id] = "running" /\ taskPc[id] = "start"
  /\ IF player \in { "active", "new" }
     THEN /\ Return(id, TrueValue)
          /\ UNCHANGED awaited
     ELSE AwaitNested(id, switchDesc, "awaitSwitch")
  /\ seenAfter' = See(caller', newPlaylist)
  /\ UNCHANGED << newPlaylist, library, taskItems, topLevel >>
  /\ UNCHANGED xvars
  /\ UNCHANGED notSwitch

\* return await this.switchToCorrectPlaylist(forcePlaylistId)
ensurePlayingReturns(id) ==
  /\ id \in Submitted /\ KindOf(id) = "ensurePlaying"
  /\ task[id] = "running" /\ taskPc[id] = "awaitSwitch"
  /\ caller[awaited[id]].kind = "value"
  /\ Return(id, caller[awaited[id]].value)
  /\ seenAfter' = See(caller', newPlaylist)
  /\ UNCHANGED << newPlaylist, library, taskItems, awaited, topLevel >>
  /\ UNCHANGED xvars
  /\ UNCHANGED notSwitch

\* switchToCorrectPlaylist() with no forced playlist, called from outside
switchToCorrectPlaylist ==
  /\ Submit(switchDesc, FALSE)
  /\ UNCHANGED pvars
  /\ UNCHANGED xvars
  /\ UNCHANGED notSwitch

\* spotifyApi.play({ context_uri }) issued by operation id
Play(id, target) ==
  /\ player' = target
  /\ plays' = Append(plays, [by |-> id, target |-> target,
                              activeCount |-> Len(activePlaylist),
                              newCount |-> Len(newPlaylist)])

\* The task of switchToCorrectPlaylist up to play, or up to its await of
\* ensureNewPlaylistHasFiveSongs when the New Playlist is the target and empty
switchReads(id) ==
  /\ id \in Submitted /\ KindOf(id) = "switch"
  /\ task[id] = "running" /\ taskPc[id] = "start"
  /\ IF devices = "none"
     THEN /\ Return(id, FalseValue)
          /\ UNCHANGED << awaited, xvars >>
     ELSE LET targetPlaylist == IF Len(activePlaylist) > 0 THEN "active" ELSE "new" IN
          /\ devices' = "live"
          /\ UNCHANGED activePlaylist
          /\ IF targetPlaylist = "new" /\ Len(newPlaylist) = 0
             THEN /\ AwaitNested(id, ensureDesc, "awaitEnsure")
                  /\ UNCHANGED << player, plays >>
             ELSE /\ Play(id, targetPlaylist)
                  /\ Return(id, TrueValue)
                  /\ UNCHANGED awaited
  /\ seenAfter' = See(caller', newPlaylist)
  /\ UNCHANGED << newPlaylist, library, taskItems, topLevel >>
  /\ UNCHANGED notSwitch

\* switchToCorrectPlaylist after ensureNewPlaylistHasFiveSongs has returned
switchPlays(id) ==
  /\ id \in Submitted /\ KindOf(id) = "switch"
  /\ task[id] = "running" /\ taskPc[id] = "awaitEnsure"
  /\ caller[awaited[id]].kind = "value"
  /\ Play(id, "new")
  /\ Return(id, TrueValue)
  /\ seenAfter' = See(caller', newPlaylist)
  /\ UNCHANGED << activePlaylist, devices >>
  /\ UNCHANGED << newPlaylist, library, taskItems, awaited, topLevel >>
  /\ UNCHANGED notSwitch

SwitchNext ==
  \/ ensurePlayingFromCorrectPlaylists
  \/ \E id \in OpIds : ensurePlayingChecks(id)
  \/ \E id \in OpIds : ensurePlayingReturns(id)
  \/ switchToCorrectPlaylist
  \/ \E id \in OpIds : switchReads(id)
  \/ \E id \in OpIds : switchPlays(id)
  \/ \E id \in OpIds : ensureReads(id)
  \/ \E id \in OpIds : ensureReturnsPopulated(id)
  \/ \E id \in OpIds : playlistTimerFires(id)

\* The remote service as a call can find it: a playing player has a live device
SwitchInit ==
  /\ InitQueue /\ InitSongs /\ InitWatcher /\ InitAuth /\ InitFinish /\ InitManager /\ InitCommands
  /\ newPlaylist \in { Ident(n) : n \in { 0, 3, targetCount } }
  /\ library = Ident(MaxLibrary)
  /\ taskPc = [i \in OpIds |-> "start"]
  /\ taskItems = [i \in OpIds |-> << >>]
  /\ awaited = [i \in OpIds |-> 0]
  /\ topLevel = << >>
  /\ seenAfter = [i \in OpIds |-> NotSeen]
  /\ activePlaylist \in { Ident(n) : n \in 0..1 }
  /\ devices \in { "none", "idle", "live" }
  /\ player \in { "off", "active", "new", "other" }
  /\ player # "off" => devices = "live"
  /\ plays = << >>

SwitchSpec == SwitchInit /\ [][SwitchNext]_vars

(***************************************************************************)
(* PlaylistManager: track ids, the two playlists and the liked songs       *)
(***************************************************************************)
\* [A-Za-z0-9]
Alnum ==
  { "A", "B", "C", "D", "E", "F", "G", "H", "I", "J", "K", "L", "M", "N", "O", "P", "Q",
    "R", "S", "T", "U", "V", "W", "X", "Y", "Z", "a", "b", "c", "d", "e", "f", "g", "h",
    "i", "j", "k", "l", "m", "n", "o", "p", "q", "r", "s", "t", "u", "v", "w", "x", "y",
    "z", "0", "1", "2", "3", "4", "5", "6", "7", "8", "9" }

\* {22}
idLength == 22

uriPrefix ==
  <<"s", "p", "o", "t", "i", "f", "y", ":", "t", "r", "a", "c", "k", ":">>

\* Tracks of the remote service, and identifiers as callers pass them:
\* well-formed ones with and without the uri prefix, one too long, one too
\* short, one with a character that is not alphanumeric, and the empty string
TrackA == [i \in 1..idLength |-> "a"]
TrackB == [i \in 1..idLength |-> "b"]
TrackC == [i \in 1..idLength |-> "c"]
TrackD == [i \in 1..idLength |-> "d"]
TrackE == [i \in 1..idLength |-> "e"]
Candidates ==
  { TrackA, TrackB, uriPrefix \o TrackA, TrackA \o << "b" >>,
    SubSeq(TrackA, 1, idLength - 1), << "-" >> \o SubSeq(TrackA, 1, idLength - 1), << >> }

\* null, and the empty string, which every test of the code treats alike
NoId == << >>

\* [A-Za-z0-9]{22} matches s from position i on
MatchesAt(s, i) ==
  /\ i >= 1 /\ i + idLength - 1 <= Len(s)
  /\ \A k \in i..(i + idLength - 1) : s[k] \in Alnum

\* /^[A-Za-z0-9]{22}$/.test(trackId), false for a falsy trackId
validateTrackId(trackId) == Len(trackId) = idLength /\ MatchesAt(trackId, 1)

\* trackId.match(/(?:spotify:track:)?([A-Za-z0-9]{22})/): the leftmost place
\* where the pattern matches, with the prefix if it is there, and group 1
normalizeTrackId(trackId) ==
  LET Prefixed(i) == /\ i + Len(uriPrefix) - 1 <= Len(trackId)
                     /\ SubSeq(trackId, i, i + Len(uriPrefix) - 1) = uriPrefix
                     /\ MatchesAt(trackId, i + Len(uriPrefix))
      starts == { i \in 1..Len(trackId) : Prefixed(i) \/ MatchesAt(trackId, i) }
  IN IF starts = {} THEN NoId
     ELSE LET i == CHOOSE m \in starts : \A n \in starts : m <= n
              from == IF Prefixed(i) THEN i + Len(uriPrefix) ELSE i
          IN SubSeq(trackId, from, from + idLength - 1)

\* The descriptions the methods queue their operations under
ManagerDesc(method, arg) ==
  IF method = "handle"
  THEN
    <<"h", "a", "n", "d", "l", "e", "T", "r", "a", "c", "k", "R", "e", "m", "o", "v", "a",
      "l", "-">> \o arg
  ELSE IF method = "remove"
  THEN
    <<"r", "e", "m", "o", "v", "e", "F", "r", "o", "m", "A", "c", "t", "i", "v", "e", "P",
      "l", "a", "y", "l", "i", "s", "t", "-">> \o arg
  ELSE
    <<"a", "d", "d", "T", "o", "P", "l", "a", "y", "l", "i", "s", "t", "s", "-">>

\* What the caller of queueOperation(task, description) receives when the race
\* of task and timer ends with outcome
CallerGets(description, outcome) ==
  IF IsCriticalOperation(description) THEN CriticalCatch(outcome)
  ELSE CatchHandler(WorkerSettle(outcome))

\* A request to the remote service about a playlist
Request(c, kind, playlist, ref) == [call |-> c, kind |-> kind, playlist |-> playlist, ref |-> ref]

\* One call of a PlaylistManager method
ManagerCall(method, arg, pc, result, ref) ==
  [method |-> method, arg |-> arg, pc |-> pc, result |-> result, ref |-> ref,
   todo |-> {}, count |-> 0, member |-> FALSE, added |-> << >>, failed |-> FALSE]

\* The worker of the operation queue runs one task at a time: it takes the next
\* operation when the race of the last one has ended
WorkerFree == \A c \in 1..Len(mcalls) : mcalls[c].result.kind # "pending"

\* Page k of getMySavedTracks({ limit, offset })
Page(k) ==
  SubSeq(library, (k - 1) * PageLimit + 1,
         IF k * PageLimit < Len(library) THEN k * PageLimit ELSE Len(library))

\* results.forEach(tracks => likedSongs.push(...tracks)) for pages 1..k, a page
\* whose request failed counting as []
RECURSIVE Gather(_, _)
Gather(pages, k) ==
  IF k = 0 THEN << >>
  ELSE Gather(pages, k - 1) \o (IF pages[k] THEN Page(k) ELSE << >>)

\* The task of getAllLikedSongs: the cache if it is fresh and not empty, else
\* the pages that could be fetched, which also replace the cache.  No request
\* of a page rejects (.catch(() => [])), so the catch block is never entered.
LikedSongsTask(pages) ==
  IF cacheFresh /\ Len(likedSongsCache) > 0
  THEN [result |-> likedSongsCache, cache |-> likedSongsCache, fetched |-> FALSE]
  ELSE [result |-> Gather(pages, MaxPages), cache |-> Gather(pages, MaxPages),
        fetched |-> TRUE]

PageOutcomes == [1..MaxPages -> BOOLEAN]

\* The effect of a call of getAllLikedSongs whose page requests end as pages
\* says (TRUE: answered, FALSE: failed)
Fetch(pages) ==
  LET r == LikedSongsTask(pages) IN
  /\ likedSongsCache' = r.cache
  /\ cacheFresh' = TRUE
  /\ lastFetch' = [called |-> TRUE,
                   failed |-> r.fetched /\ \E k \in 1..MaxPages : ~pages[k],
                   cacheBefore |-> likedSongsCache,
                   returned |-> r.result]

\* getAllLikedSongs() called while the worker is free: its task runs at once
likedSongsFetched(pages) ==
  /\ WorkerFree
  /\ Fetch(pages)
  /\ UNCHANGED << activePlaylistTracks, newPlaylistTracks, mcalls, issued >>
  /\ UNCHANGED << newPlaylist, library, activePlaylist >>
  /\ UNCHANGED notManager

\* Five minutes pass since the liked songs were fetched
cacheAges ==
  /\ cacheFresh
  /\ cacheFresh' = FALSE
  /\ UNCHANGED << activePlaylistTracks, newPlaylistTracks, likedSongsCache, mcalls, issued,
                  lastFetch >>
  /\ UNCHANGED << newPlaylist, library, activePlaylist >>
  /\ UNCHANGED notManager

\* refreshPlaylists() as isTrackInPlaylist calls it, the caches older than ten
\* seconds
refreshPlaylists ==
  /\ activePlaylistTracks' = activePlaylist
  /\ newPlaylistTracks' = newPlaylist
  /\ << activePlaylistTracks', newPlaylistTracks' >> # << activePlaylistTracks, newPlaylistTracks >>
  /\ UNCHANGED << likedSongsCache, cacheFresh, mcalls, issued, lastFetch >>
  /\ UNCHANGED << newPlaylist, library, activePlaylist >>
  /\ UNCHANGED notManager

\* removeFromActivePlaylist(trackId): the whole task, which awaits no queued
\* operation.  The remote service removes every item of the named track.
removeFromActivePlaylist(trackId) ==
  /\ Len(mcalls) < MaxManagerCalls /\ WorkerFree
  /\ LET c == Len(mcalls) + 1
         trackToRemove == trackId \in SeqToSet(activePlaylist)
         returned == IF trackToRemove THEN TrueValue ELSE FalseValue
     IN /\ activePlaylist' = IF trackToRemove THEN RemoveTracks(activePlaylist, {trackId})
                                               ELSE activePlaylist
        /\ issued' = IF trackToRemove
                      THEN issued \cup { Request(c, "remove", "active", trackId) }
                      ELSE issued
        /\ mcalls' = Append(mcalls,
             [ManagerCall("remove", trackId, "done",
                          CallerGets(ManagerDesc("remove", trackId), Fulfilled(returned)),
                          trackId)
                EXCEPT !.member = trackToRemove])
  /\ UNCHANGED << activePlaylistTracks, newPlaylistTracks, likedSongsCache, cacheFresh,
                  lastFetch >>
  /\ UNCHANGED << newPlaylist, library >>
  /\ UNCHANGED notManager

\* handleTrackRemoval(trackId, trackName, removalCount) up to Promise.all: an
\* identifier that does not pass is answered with false; otherwise the two
\* removals are sent and the replacement waits for getAllLikedSongs
handleTrackRemoval(trackId, removalCount) ==
  /\ Len(mcalls) < MaxManagerCalls /\ WorkerFree
  /\ LET c == Len(mcalls) + 1
         normalizedId == normalizeTrackId(trackId)
         description == ManagerDesc("handle", trackId)
     IN IF normalizedId = NoId \/ ~validateTrackId(normalizedId)
        THEN /\ mcalls' = Append(mcalls,
                  ManagerCall("handle", trackId, "done",
                              CallerGets(description, Fulfilled(FalseValue)), NoId))
             /\ UNCHANGED issued
        ELSE /\ mcalls' = Append(mcalls,
                  [ManagerCall("handle", trackId, "parallel", NotSettled, normalizedId)
                     EXCEPT !.todo = { "active", "new", "backfill" },
                            !.count = removalCount])
             /\ issued' = issued \cup { Request(c, "remove", "active", normalizedId),
                                         Request(c, "remove", "new", normalizedId) }
  /\ UNCHANGED << activePlaylistTracks, newPlaylistTracks, likedSongsCache, cacheFresh,
                  lastFetch >>
  /\ UNCHANGED << newPlaylist, library, activePlaylist >>
  /\ UNCHANGED notManager

\* One of the two removals of call c takes effect on the remote service
removalLands(c, playlist) ==
  /\ c \in 1..Len(mcalls) /\ mcalls[c].method = "handle"
  /\ playlist \in mcalls[c].todo \ { "backfill" }
  /\ mcalls' = [mcalls EXCEPT ![c].todo = @ \ { playlist }]
  /\ IF playlist = "active"
     THEN /\ activePlaylist' = RemoveTracks(activePlaylist, { mcalls[c].ref })
          /\ UNCHANGED newPlaylist
     ELSE /\ newPlaylist' = RemoveTracks(newPlaylist, { mcalls[c].ref })
          /\ UNCHANGED activePlaylist
  /\ UNCHANGED << activePlaylistTracks, newPlaylistTracks, likedSongsCache, cacheFresh,
                  issued, lastFetch >>
  /\ UNCHANGED library
  /\ UNCHANGED notManager

\* The timer of the queued operation of call c fires while its task waits for
\* an operation queued behind it
managerTimerFires(c) ==
  /\ c \in 1..Len(mcalls) /\ mcalls[c].pc \in { "parallel", "search" }
  /\ mcalls[c].result.kind = "pending"
  /\ LET description == ManagerDesc(mcalls[c].method, mcalls[c].arg) IN
     mcalls' = [mcalls EXCEPT ![c].result =
                  CallerGets(description, Rejected(TimeoutError(description)))]
  /\ UNCHANGED << activePlaylistTracks, newPlaylistTracks, likedSongsCache, cacheFresh,
                  issued, lastFetch >>
  /\ UNCHANGED << newPlaylist, library, activePlaylist >>
  /\ UNCHANGED notManager

\* The replacement of call c: getAllLikedSongs, queued behind the operation of
\* the call itself, has run at last; the first removalCount of the shuffled
\* liked songs are added to the New Playlist
backfill(c, pages) ==
  /\ c \in 1..Len(mcalls) /\ mcalls[c].method = "handle"
  /\ "backfill" \in mcalls[c].todo
  /\ mcalls[c].result.kind = "value"
  /\ Fetch(pages)
  /\ LET r == LikedSongsTask(pages) IN
     /\ \E picks \in Shuffled(r.result, mcalls[c].count) :
          LET songsToAdd == SelectSeq(picks, LAMBDA u : validateTrackId(normalizeTrackId(u)))
          IN /\ newPlaylist' = newPlaylist \o songsToAdd
             /\ issued' = issued \cup { Request(c, "add", "new", songsToAdd[k]) :
                                           k \in 1..Len(songsToAdd) }
             /\ mcalls' = [mcalls EXCEPT ![c].todo = @ \ { "backfill" },
                                          ![c].added = songsToAdd,
                                          ![c].failed = lastFetch'.failed]
  /\ UNCHANGED << activePlaylistTracks, newPlaylistTracks >>
  /\ UNCHANGED << library, activePlaylist >>
  /\ UNCHANGED notManager

\* handleTrackRemoval after Promise.all: a New Playlist that does not hold five
\* tracks is handed to ensureNewPlaylistHasFiveSongs before the task returns
handleTrackRemovalReturns(c) ==
  /\ c \in 1..Len(mcalls) /\ mcalls[c].method = "handle"
  /\ mcalls[c].pc = "parallel" /\ mcalls[c].todo = {}
  /\ mcalls' = [mcalls EXCEPT ![c].pc = IF Len(newPlaylist) # targetCount THEN "ensure"
                                         ELSE "done"]
  /\ UNCHANGED << activePlaylistTracks, newPlaylistTracks, likedSongsCache, cacheFresh,
                  issued, lastFetch >>
  /\ UNCHANGED << newPlaylist, library, activePlaylist >>
  /\ UNCHANGED notManager

\* addToPlaylists(title, url) for a url that ends in candidate, up to its await
\* of searchTrack
addToPlaylistsCalled(candidate) ==
  /\ WorkerFree
  /\ mcalls' = Append(mcalls, ManagerCall("add", candidate, "search", NotSettled, NoId))
  /\ UNCHANGED << activePlaylistTracks, newPlaylistTracks, likedSongsCache, cacheFresh,
                  issued, lastFetch >>
  /\ UNCHANGED << newPlaylist, library, activePlaylist >>
  /\ UNCHANGED notManager

\* A call of addToPlaylists while fewer than MaxManagerCalls calls were made
addToPlaylists(candidate) ==
  /\ Len(mcalls) < MaxManagerCalls
  /\ addToPlaylistsCalled(candidate)

\* addToPlaylists from the answer of searchTrack on: the id the url gives if 22
\* alphanumeric characters follow 'track/', else found, the first hit of the
\* search by title (NoId: no hit, the failure object has no match method).  The
\* track is added to the active playlist unless the cache holds it.
addToPlaylistsResumes(c, found) ==
  /\ c \in 1..Len(mcalls) /\ mcalls[c].method = "add" /\ mcalls[c].pc = "search"
  /\ mcalls[c].result.kind = "value"
  /\ LET fromUrl == MatchesAt(mcalls[c].arg, 1)
         trackId == IF fromUrl THEN SubSeq(mcalls[c].arg, 1, idLength) ELSE found
         normalizedId == normalizeTrackId(trackId)
         isInActivePlaylist == normalizedId \in SeqToSet(activePlaylistTracks)
     IN IF normalizedId = NoId \/ ~validateTrackId(normalizedId)
        THEN /\ mcalls' = [mcalls EXCEPT ![c].pc = "done"]
             /\ UNCHANGED << activePlaylist, issued >>
        ELSE /\ mcalls' = [mcalls EXCEPT ![c].pc = IF Len(newPlaylistTracks) # targetCount
                                                   THEN "ensure" ELSE "done",
                                          ![c].ref = IF fromUrl THEN normalizedId ELSE NoId,
                                          ![c].added = << normalizedId >>]
             /\ activePlaylist' = IF isInActivePlaylist THEN activePlaylist
                                   ELSE Append(activePlaylist, normalizedId)
             /\ issued' = issued \cup { Request(c, "add", "archive", normalizedId) }
                             \cup (IF isInActivePlaylist THEN {}
                                   ELSE { Request(c, "add", "active", normalizedId) })
  /\ UNCHANGED << activePlaylistTracks, newPlaylistTracks, likedSongsCache, cacheFresh,
                  lastFetch >>
  /\ UNCHANGED << newPlaylist, library >>
  /\ UNCHANGED notManager

\* The ensureNewPlaylistHasFiveSongs that call c awaits acts on the New
\* Playlist, in one step here: the tracks past the fifth are removed by uri, a
\* shortfall is made up from the shuffled liked songs
ensureActs(c, pages) ==
  /\ c \in 1..Len(mcalls) /\ mcalls[c].pc = "ensure"
  /\ mcalls' = [mcalls EXCEPT ![c].pc = "done"]
  /\ IF Len(newPlaylist) >= targetCount
     THEN /\ newPlaylist' = RemoveTracks(newPlaylist,
                 SeqToSet(SubSeq(newPlaylist, targetCount + 1, Len(newPlaylist))))
          /\ UNCHANGED << likedSongsCache, cacheFresh, lastFetch >>
     ELSE LET r == LikedSongsTask(pages) IN
          /\ Fetch(pages)
          /\ \E picks \in Shuffled(r.result, targetCount - Len(newPlaylist)) :
               newPlaylist' = newPlaylist \o picks
  /\ UNCHANGED << activePlaylistTracks, newPlaylistTracks, issued >>
  /\ UNCHANGED << library, activePlaylist >>
  /\ UNCHANGED notManager

ManagerNext ==
  \/ refreshPlaylists
  \/ \E t \in { TrackA, TrackB } : removeFromActivePlaylist(t)
  \/ \E t \in Candidates, n \in 1..2 : handleTrackRemoval(t, n)
  \/ \E c \in 1..MaxManagerCalls, pl \in { "active", "new" } : removalLands(c, pl)
  \/ \E c \in 1..MaxManagerCalls : managerTimerFires(c)
  \/ \E c \in 1..MaxManagerCalls, pages \in PageOutcomes : backfill(c, pages)
  \/ \E c \in 1..MaxManagerCalls : handleTrackRemovalReturns(c)
  \/ \E t \in Candidates : addToPlaylists(t)
  \/ \E c \in 1..MaxManagerCalls, found \in { TrackB, NoId } : addToPlaylistsResumes(c, found)
  \/ \E c \in 1..MaxManagerCalls, pages \in PageOutcomes : ensureActs(c, pages)

\* The remote service as the bot finds it when it starts: three saved tracks,
\* playlists without repeated tracks
ManagerInit ==
  /\ InitQueue /\ InitSongs /\ InitWatcher /\ InitAuth /\ InitFinish /\ InitManager /\ InitCommands
  /\ library = << TrackA, TrackB, TrackC >>
  /\ newPlaylist \in { << >>, << TrackA, TrackB >>,
                        << TrackA, TrackB, TrackC, TrackD, TrackE >> }
  /\ activePlaylist \in { << >>, << TrackA >> }
  /\ taskPc = [i \in OpIds |-> "start"]
  /\ taskItems = [i \in OpIds |-> << >>]
  /\ awaited = [i \in OpIds |-> 0]
  /\ topLevel = << >>
  /\ seenAfter = [i \in OpIds |-> NotSeen]
  /\ devices = "none"
  /\ player = "off"
  /\ plays = << >>

ManagerSpec == ManagerInit /\ [][ManagerNext]_vars

\* getAllLikedSongs on its own, called again and again as the cache ages
LikedNext ==
  \/ \E pages \in PageOutcomes : likedSongsFetched(pages)
  \/ cacheAges

LikedSpec == ManagerInit /\ [][LikedNext]_vars

Init ==
  /\ InitQueue /\ InitSongs /\ InitWatcher /\ InitAuth /\ InitPlaylists /\ InitFinish
  /\ InitSwitch /\ InitManager /\ InitCommands

Next ==
  \/ \E s \in Submissions : queueOperation(s[1], s[2])
  \/ \E id \in OpIds, o \in TaskOutcomes : TaskSettles(id, o)
  \/ \E id \in OpIds : TimerFires(id)

Spec == Init /\ [][Next]_vars

SongNext ==
  \/ \E u \in Tracks, w \in Adders : addSong(u, w)
  \/ \E i \in 0..MaxSongs, w \in Users : handleReaction(i, w)
  \/ removeFirst
  \/ onSongFinish
  \/ onSongFinishResume
  \/ syncQueueWithActivePlaylist
  \/ \E src \in {"active", "new", "none"}, items \in SeedLists : seedFill(src, items)
  \/ \E t \in Tracks : syncWithSpotify(t)

SongSpec == Init /\ [][SongNext]_vars

\* SongQueue called directly, index and user unchecked
VoteNext ==
  \/ \E u \in Tracks, w \in Adders : addSong(u, w)
  \/ \E i \in -1..MaxSongs, w \in Users : vote(i, w)
  \/ removeFirst

VoteSpec == Init /\ [][VoteNext]_vars

\* The queue of songs while tracks finish on the remote player
FinishNext ==
  \/ \E u \in Tracks, w \in Adders : addSong(u, w)
  \/ startPlayingSong
  \/ \E cur \in Tracks : trackFinishes(cur)
  \/ songFinish
  \/ \E prev \in Tracks, cur \in Tracks : spotifyTrackChanged(prev, cur)
  \/ onSongFinishResume
  \/ \E src \in {"active", "new", "none"}, items \in SeedLists : seedFill(src, items)

FinishSpec == Init /\ [][FinishNext]_vars

WatchSpec == Init /\ [][WatchNext]_vars

AuthSpec == Init /\ [][AuthNext]_vars

\* queueOperation while fewer than MaxLiveOps operations were submitted
queueOperationLive(description, isPriority) ==
  /\ Len(submitted) < MaxLiveOps
  /\ queueOperation(description, isPriority)

LiveNext ==
  \/ \E s \in Submissions : queueOperationLive(s[1], s[2])
  \/ \E id \in OpIds, o \in TaskOutcomes : TaskSettles(id, o)
  \/ \E id \in OpIds : TimerFires(id)

\* Armed timers fire.  Nothing obliges a task to settle.
LiveSpec == Init /\ [][LiveNext]_vars /\ \A id \in OpIds : WF_vars(TimerFires(id))

(***************************************************************************)
(* Vocabulary of the properties                                            *)
(***************************************************************************)
\* The description of operation id contains a critical keyword.
MatchesCriticalKeyword(id) ==
  /\ id \in Submitted
  /\ \E kw \in criticalOperations : Includes(submitted[id].description, kw)

NonCritical(id) == id \in Submitted /\ ~MatchesCriticalKeyword(id)

Started(id) == invocations[id] > 0

Pending(id) == id \in SeqToSet(operationQueue)

RaceSettled(id) == race[id].kind \in {"value", "error"}

TimedOut(id) == race[id] = Rejected("Operation timed out")

\* operation() of a was called before operation() of b
StartedBefore(a, b) ==
  \E i, j \in 1..Len(startOrder) : i < j /\ startOrder[i] = a /\ startOrder[j] = b

(***************************************************************************)
(* C1: at any instant at most one non-critical operation has its task      *)
(* running, that is invoked and not yet settled.  The code does not keep   *)
(* this: a task that lost the race against its timer is still running when *)
(* the worker starts the next one.                                         *)
(***************************************************************************)
C1_AtMostOneNonCriticalTaskRunning ==
  Cardinality({ id \in OpIds : NonCritical(id) /\ task[id] = "running" }) <= 1

(***************************************************************************)
(* C2: when the timer of the operation the worker waits for fires before   *)
(* the task settles, every operation pending behind it is started later.   *)
(***************************************************************************)
C2_TimeoutProceeds ==
  /\ [][ \A a \in OpIds :
           (current = a /\ ~TimedOut(a) /\ TimedOut(a)' /\ operationQueue # << >>)
             => (current' = Head(operationQueue) /\ invocations'[Head(operationQueue)] = 1) ]_vars
  /\ \A b \in OpIds : Pending(b) ~> Started(b)

C2_Witness ==
  \E a, b \in OpIds :
    /\ TimedOut(a) /\ task[a] = "running"
    /\ inflightAtSubmit[b] = a
    /\ Started(b)

(***************************************************************************)
(* C3: the promise queueOperation returns is never rejected, and when the  *)
(* race of an operation ended in an error (task threw or rejected, or the  *)
(* timer fired) the caller is resolved with {success: false, error}.       *)
(***************************************************************************)
C3_NeverRejects ==
  \A id \in OpIds :
    /\ caller[id].kind # "error"
    /\ (caller[id].kind = "value" /\ race[id].kind = "error")
         => caller[id].value = FailureResult(race[id].message)

C3_Witness ==
  \E c, n \in OpIds :
    /\ MatchesCriticalKeyword(c) /\ race[c].kind = "error" /\ caller[c].kind = "value"
    /\ NonCritical(n) /\ race[n].kind = "error" /\ caller[n].kind = "value"

(***************************************************************************)
(* C4: a submission whose description contains a critical keyword starts   *)
(* its task in the same step, leaves operationQueue and isProcessingQueue  *)
(* as they were, and is never in operationQueue.                           *)
(***************************************************************************)
C4_CriticalBypass ==
  [][ /\ (Len(submitted') = Len(submitted) + 1
          /\ \E kw \in criticalOperations :
               Includes(submitted'[Len(submitted')].description, kw))
        => /\ operationQueue' = operationQueue
           /\ isProcessingQueue' = isProcessingQueue
           /\ task'[Len(submitted')] = "running"
      /\ \A id \in 1..Len(submitted') :
           (\E kw \in criticalOperations : Includes(submitted'[id].description, kw))
             => id \notin SeqToSet(operationQueue') ]_vars

C4_Witness ==
  \E c, n \in OpIds :
    /\ MatchesCriticalKeyword(c) /\ task[c] = "running"
    /\ n # 0 /\ inflightAtSubmit[c] = n /\ current = n /\ race[n].kind = "pending"
    /\ pendingAtSubmit[c] # {} /\ pendingAtSubmit[c] = SeqToSet(operationQueue)

(***************************************************************************)
(* C5: a priority non-critical operation submitted while the worker waits  *)
(* for an operation is started only once that operation's race has settled *)
(* (task settled or timer fired), and before every operation that was      *)
(* pending when it was submitted.                                          *)
(***************************************************************************)
C5_PriorityPrependsNoPreempt ==
  \A p \in OpIds :
    (NonCritical(p) /\ submitted[p].isPriority /\ Started(p)) =>
      /\ inflightAtSubmit[p] # 0 => RaceSettled(inflightAtSubmit[p])
      /\ \A q \in pendingAtSubmit[p] : ~Started(q) \/ StartedBefore(p, q)

C5_Witness ==
  \E p, q \in OpIds :
    /\ NonCritical(p) /\ submitted[p].isPriority
    /\ inflightAtSubmit[p] # 0 /\ q \in pendingAtSubmit[p]
    /\ Started(p) /\ Started(q)

(***************************************************************************)
(* C6: of two non-priority non-critical operations, the one submitted      *)
(* first has its task invoked first.                                       *)
(***************************************************************************)
C6_Fifo ==
  \A a, b \in OpIds :
    ( /\ a < b /\ NonCritical(a) /\ NonCritical(b)
      /\ ~submitted[a].isPriority /\ ~submitted[b].isPriority
      /\ Started(b) ) => StartedBefore(a, b)

C6_Witness ==
  \E a, b \in OpIds :
    /\ a < b /\ NonCritical(a) /\ NonCritical(b)
    /\ ~submitted[a].isPriority /\ ~submitted[b].isPriority
    /\ inflightAtSubmit[a] # 0 /\ a \in pendingAtSubmit[b]
    /\ Started(a) /\ Started(b)

(***************************************************************************)
(* C7: the task of an operation is invoked at most once, and an operation  *)
(* whose task has been invoked is no longer in the pending list, which     *)
(* holds no operation twice.                                               *)
(***************************************************************************)
C7_StartedAtMostOnce ==
  /\ \A id \in OpIds : invocations[id] <= 1
  /\ \A id \in OpIds : Started(id) => ~Pending(id)
  /\ \A i, j \in 1..Len(operationQueue) :
       operationQueue[i] = operationQueue[j] => i = j

C7_Witness ==
  \E id \in OpIds :
    /\ inflightAtSubmit[id] # 0 /\ invocations[id] = 1
    /\ caller[id].kind = "value"

(***************************************************************************)
(* C8: every submitted operation eventually resolves its caller, also when *)
(* tasks never settle, given that timers fire.                             *)
(***************************************************************************)
C8_EveryCallerResolved ==
  \A id \in OpIds : (caller[id].kind = "pending") ~> (caller[id].kind = "value")

C8_Witness ==
  \E a, b \in OpIds :
    /\ a # b /\ NonCritical(a) /\ NonCritical(b)
    /\ task[a] = "running" /\ caller[a].kind = "value"
    /\ task[b] = "running" /\ caller[b].kind = "value"
(***************************************************************************)
(* C9: every Song in the queue has votes = |voters| and votes >= 1 (so no   *)
(* user is counted twice), and the votes of a Song that stays in the queue *)
(* never decrease.                                                         *)
(***************************************************************************)
C9_VotesMatchVoters ==
  /\ [](\A i \in 1..Len(songs) :
          /\ songStore[songs[i]].votes = Cardinality(songStore[songs[i]].voters)
          /\ songStore[songs[i]].votes >= 1)
  /\ [][ \A id \in SongIds :
           (id \in SeqToSet(songs) /\ id \in SeqToSet(songs'))
             => songStore'[id].votes >= songStore[id].votes ]_vars

C9_Witness ==
  \E i, j \in 1..Len(songs) :
    /\ songStore[songs[i]].voters = { "u1", "u2" }
    /\ songStore[songs[j]].voters = { BotUser, "u1", "u2" }

C11_VoteRejectsQuietly ==
  [][ \A i \in -1..MaxSongs, w \in Users :
        ( /\ vote(i, w)
          /\ \/ i < 0
             \/ i >= Len(songs)
             \/ AlreadyVoted(songStore[songs[i + 1]], w) )
          => ( /\ voteResult' = "false"
               /\ songs' = songs
               /\ songStore' = songStore ) ]_vars

(***************************************************************************)
(* Vocabulary of the watcher's properties                                  *)
(***************************************************************************)
\* The positions in emitted of the events of that name
EventsNamed(name) == { k \in 1..Len(emitted) : emitted[k].name = name }

\* The positions of the events of that name that call c emitted
EventsOf(c, name) == { k \in EventsNamed(name) : emitted[k].by = c }

\* Call c resumes from getCurrentlyPlaying in this step
Resumes(c) == checkPc[c] = "fetching" /\ checkPc'[c] # "fetching"

(***************************************************************************)
(* C12: spotifyTrackChanged is never emitted twice for the same stored     *)
(* snapshot and the same current track id, however the calls of            *)
(* checkCurrentlyPlaying overlap; and the test looks at the track id only: *)
(* the two tracks of an emitted change differ in id, and a poll that       *)
(* answers the id of the stored snapshot changes and emits nothing,        *)
(* whatever its progress.                                                  *)
(***************************************************************************)
C12_TrackChangedOncePerPair ==
  /\ [](\A i, j \in EventsNamed("spotifyTrackChanged") :
          (i # j /\ emitted[i].previous.by = emitted[j].previous.by)
            => IdOf(emitted[i].current.value) # IdOf(emitted[j].current.value))
  /\ [](\A i \in EventsNamed("spotifyTrackChanged") :
          IdOf(emitted[i].previous.value) # IdOf(emitted[i].current.value))
  /\ [][ \A c \in CheckIds :
           ( /\ Resumes(c)
             /\ Truthy(currentlyPlaying.value)
             /\ IdOf(getCurrentlyPlaying(polled'[c])) = IdOf(currentlyPlaying.value) )
             => (currentlyPlaying' = currentlyPlaying /\ emitted' = emitted) ]_vars

\* Two calls overlap on the same new track: the first is still removing the old
\* one when the second, with another progress, finds nothing changed.
C12_Witness ==
  \E a, b \in CheckIds :
    /\ a < b
    /\ checkPc[a] = "removing" /\ checkPc[b] = "done"
    /\ IsTrack(previousTrack[a].value)
    /\ polled[a].kind = "value" /\ polled[b].kind = "value"
    /\ IsTrack(polled[a].value) /\ IsTrack(polled[b].value)
    /\ polled[a].value.id = polled[b].value.id
    /\ polled[a].value.progress_ms # polled[b].value.progress_ms
    /\ b \notin detected

(***************************************************************************)
(* C13: a poll that finds nothing playing leaves the stored snapshot as it *)
(* is and emits no event, in the step that receives the answer and later.  *)
(* The code does not keep this: the operation queue replaces the task's    *)
(* null by a failure object, which the watcher stores as a track.          *)
(***************************************************************************)
C13_IdlePollChangesNothing ==
  /\ [][ \A c \in CheckIds :
           (Resumes(c) /\ polled'[c] = Fulfilled(NullValue))
             => (currentlyPlaying' = currentlyPlaying /\ emitted' = emitted) ]_vars
  /\ [](\A k \in 1..Len(emitted) : polled[emitted[k].by] # Fulfilled(NullValue))

(***************************************************************************)
(* C14: a call that detected a transition and has finished has emitted     *)
(* spotifyNowPlaying(current) once, has emitted spotifyTrackChanged only   *)
(* if the snapshot it replaced was a real track, and emitted it before     *)
(* spotifyNowPlaying.  The failure objects of C13 break this.              *)
(***************************************************************************)
C14_TransitionEvents ==
  \A c \in detected :
    checkPc[c] = "done" =>
      /\ Cardinality(EventsOf(c, "spotifyNowPlaying")) = 1
      /\ \A k \in EventsOf(c, "spotifyNowPlaying") : emitted[k].current.by = c
      /\ EventsOf(c, "spotifyTrackChanged") # {} => IsTrack(previousTrack[c].value)
      /\ \A i \in EventsOf(c, "spotifyTrackChanged"), j \in EventsOf(c, "spotifyNowPlaying") :
           i < j

(***************************************************************************)
(* C15: a call whose first invocation failed with status 401 and whose     *)
(* retry succeeded returns the retry's value, after exactly one refresh    *)
(* and exactly two invocations.                                            *)
(***************************************************************************)
C15_RetryResultReturned ==
  \A c \in CallIds :
    ( /\ callPc[c] = "done"
      /\ Len(attempts[c]) >= 2
      /\ attempts[c][1] = ApiError(401)
      /\ attempts[c][2].kind = "value" )
      => ( /\ callResult[c] = attempts[c][2]
           /\ Len(refreshes[c]) = 1
           /\ Len(attempts[c]) = 2 )

C15_Witness ==
  \E c \in CallIds :
    /\ callPc[c] = "done"
    /\ attempts[c] = << ApiError(401), Fulfilled(SuccessResult) >>
    /\ refreshes[c] = << Fulfilled(NullValue) >>
    /\ callResult[c] = Fulfilled(SuccessResult)

(***************************************************************************)
(* C16: one call refreshes at most once and invokes the operation at most  *)
(* twice; the error of a failed retry, and the error of a failed refresh,  *)
(* end the call as its rejection.                                          *)
(***************************************************************************)
C16_AtMostOneRetry ==
  \A c \in CallIds :
    /\ Len(refreshes[c]) <= 1
    /\ Len(attempts[c]) <= 2
    /\ (Len(attempts[c]) >= 2 /\ attempts[c][2].kind = "error")
         => (callPc[c] = "done" /\ callResult[c] = attempts[c][2])
    /\ (Len(refreshes[c]) >= 1 /\ refreshes[c][1].kind = "error")
         => ( /\ callPc[c] = "done"
              /\ callResult[c] = refreshes[c][1]
              /\ Len(attempts[c]) = 1 )

C16_Witness ==
  \E a, b \in CallIds :
    /\ callPc[a] = "done"
    /\ attempts[a] = << ApiError(401), ApiError(401) >>
    /\ callResult[a] = ApiError(401)
    /\ callPc[b] = "done"
    /\ attempts[b] = << ApiError(401) >>
    /\ refreshes[b] = << ApiError(400) >>
    /\ callResult[b] = ApiError(400)

(***************************************************************************)
(* C17: a call whose first invocation failed with an error that is not an  *)
(* authorization error rejects with that error after the one invocation,   *)
(* without a refresh.                                                      *)
(***************************************************************************)
C17_OtherErrorsPropagate ==
  \A c \in CallIds :
    ( /\ Len(attempts[c]) >= 1
      /\ attempts[c][1].kind = "error"
      /\ attempts[c][1] # ApiError(401) )
      => ( /\ callPc[c] = "done"
           /\ callResult[c] = attempts[c][1]
           /\ Len(attempts[c]) = 1
           /\ refreshes[c] = << >> )

C17_Witness ==
  \E c \in CallIds :
    /\ callPc[c] = "done"
    /\ attempts[c] = << ApiError(500) >>
    /\ callResult[c] = ApiError(500)

(***************************************************************************)
(* PlaylistManager.ensureNewPlaylistHasFiveSongs                           *)
(***************************************************************************)
\* The calls of ensureNewPlaylistHasFiveSongs made from outside that have
\* returned to their caller
Returned(e) == e \in SeqToSet(topLevel) /\ caller[e].kind = "value"

NoRepeats(s) == \A i, j \in 1..Len(s) : i # j => s[i] # s[j]

\* C18: ensureNewPlaylistHasFiveSongs is idempotent: of two calls in a row with
\* nothing else touching the playlist, the second leaves the New Playlist with
\* the membership the first left it with.
C18_EnsureIdempotent ==
  \A k \in 1..(Len(topLevel) - 1) :
    (Returned(topLevel[k]) /\ Returned(topLevel[k + 1]))
      => seenAfter[topLevel[k + 1]] = seenAfter[topLevel[k]]

\* C19: a call that finds n > 5 tracks removes the n - 5 items beyond the first
\* five positions and nothing else, so that five tracks are left.
C19_TrimsExcess ==
  [][ \A e \in OpIds :
        ( /\ e \in Submitted /\ KindOf(e) = "ensure"
          /\ taskPc[e] = "read" /\ taskPc'[e] = "done"
          /\ Len(taskItems[e]) > targetCount
          /\ newPlaylist = taskItems[e] )
        => /\ newPlaylist' = SubSeq(newPlaylist, 1, targetCount)
           /\ Len(newPlaylist') = targetCount ]_vars

\* C20: a call that finds the New Playlist empty while the library holds at
\* least five saved tracks returns to its caller with five pairwise distinct
\* tracks of the library in the playlist, and reports that result.
C20_RepopulatesAndReports ==
  \A e \in OpIds :
    ( /\ Returned(e)
      /\ taskPc[e] # "start" /\ taskItems[e] = << >>
      /\ Len(library) >= targetCount )
    => /\ Len(seenAfter[e]) = targetCount
       /\ NoRepeats(seenAfter[e])
       /\ SeqToSet(seenAfter[e]) \subseteq SeqToSet(library)
       /\ caller[e].value = PopulateResult(targetCount)

(***************************************************************************)
(* One finished track, two signals                                         *)
(***************************************************************************)
\* C21: the finish of one track takes at most one song off the queue, also
\* when both the song timer (songFinish) and the poll (spotifyTrackChanged)
\* signal it, in either order.
C21_OneFinishOnePop == popped <= 1

\* C22: spotifyTrackChanged(previous, current) takes the head off the queue
\* only if the head is the song of the retired track previous.
C22_PopsMatchingHeadOnly ==
  changeLog.popped => changeLog.head = changeLog.previous

(***************************************************************************)
(* The playlist the remote player plays from                               *)
(***************************************************************************)
\* C23: when ensurePlayingFromCorrectPlaylists, called with no forced playlist,
\* returns success while the active playlist has tracks, the remote player
\* plays from the active playlist, also if it played from the New Playlist
\* before.
C23_ActivePlaylistFirst ==
  [][ \A e \in OpIds :
        ( /\ e \in Submitted /\ KindOf(e) = "ensurePlaying"
          /\ caller[e].kind = "pending" /\ caller'[e] = Fulfilled(TrueValue)
          /\ Len(activePlaylist') > 0 )
        => player' = "active" ]_vars

\* C24: a switch with no forced playlist plays the active playlist if that has
\* a track and the New Playlist otherwise; the New Playlist is brought to
\* targetCount tracks before play is issued for it; with no device there is
\* no play and the switch reports failure.
C24_SwitchTarget ==
  [][ /\ plays' # plays =>
           LET p == plays'[Len(plays')] IN
           /\ p.target = (IF p.activeCount > 0 THEN "active" ELSE "new")
           /\ p.target = "new" => p.newCount = targetCount
      /\ \A e \in OpIds :
           ( /\ e \in Submitted /\ KindOf(e) = "switch"
             /\ taskPc[e] = "start" /\ taskPc'[e] = "done"
             /\ devices = "none" )
           => /\ plays' = plays
              /\ caller'[e].kind = "value" /\ caller'[e].value # TrueValue ]_vars

\* C25: the switch that ensurePlayingFromCorrectPlaylists issues is critical:
\* its description matches a critical keyword, it is not put on the pending
\* list and its task starts at once, while the operation that issued it is in
\* flight.
C25_SwitchIsCritical ==
  [][ \A e \in OpIds :
        ( /\ e \in Submitted /\ KindOf(e) = "ensurePlaying"
          /\ taskPc[e] = "start" /\ taskPc'[e] = "awaitSwitch" )
        => LET n == awaited'[e] IN
           /\ IsCriticalOperation(submitted'[n].description)
           /\ n \notin SeqToSet(operationQueue')
           /\ task'[n] = "running" ]_vars

\* C26: addToPlaylists never adds to the active playlist a track that is a
\* member of it: the active playlist holds no track twice.
C26_ActiveHasNoDuplicate == NoRepeats(activePlaylist)

\* C27: removeFromActivePlaylist(ref) tells its caller whether a removal
\* occurred: the result is truthy exactly if ref was a member of the active
\* playlist, and a remove request was sent exactly in that case.
C27_RemovalReported ==
  \A c \in 1..Len(mcalls) :
    mcalls[c].method = "remove" =>
      /\ mcalls[c].result.kind = "value"
      /\ Truthy(mcalls[c].result.value) <=> mcalls[c].member
      /\ mcalls[c].member <=>
            \E r \in issued : r.call = c /\ r.kind = "remove" /\ r.playlist = "active"

\* C28: when the task of handleTrackRemoval(ref, removalCount) completes, ref
\* is in neither playlist, exactly removalCount tracks of the library, no two
\* the same, have been added to the New Playlist, and none to the active one,
\* in whatever order the removals and the replacement took effect.  Stated for
\* the calls that fetched every page of the library and found five tracks in
\* the New Playlist afterwards, so that nothing else has touched the playlists.
C28_RemovedAndBackfilled ==
  [][ \A c \in 1..Len(mcalls) :
        ( /\ mcalls[c].method = "handle" /\ mcalls[c].ref # NoId
          /\ ~mcalls[c].failed
          /\ mcalls[c].pc = "parallel" /\ mcalls'[c].pc = "done" )
        => /\ mcalls[c].ref \notin SeqToSet(activePlaylist')
           /\ mcalls[c].ref \notin SeqToSet(newPlaylist')
           /\ Len(mcalls'[c].added) = mcalls[c].count
           /\ NoRepeats(mcalls'[c].added)
           /\ SeqToSet(mcalls'[c].added) \subseteq SeqToSet(library)
           /\ ~ \E r \in issued' : r.call = c /\ r.kind = "add" /\ r.playlist = "active"
    ]_vars

AllPages == [k \in 1..MaxPages |-> TRUE]

\* C29: a call of getAllLikedSongs in which a page request fails, made while
\* the cache holds the list of a complete fetch, returns that list and leaves
\* the cache as it was.
C29_FailedFetchKeepsCache ==
  ( /\ lastFetch.called /\ lastFetch.failed
    /\ lastFetch.cacheBefore # << >>
    /\ lastFetch.cacheBefore = Gather(AllPages, MaxPages) )
  => /\ lastFetch.returned = lastFetch.cacheBefore
     /\ likedSongsCache = lastFetch.cacheBefore

\* The identifier with an optional spotify:track: prefix taken off
StripPrefix(trackId) ==
  IF Len(trackId) >= Len(uriPrefix) /\ SubSeq(trackId, 1, Len(uriPrefix)) = uriPrefix
  THEN SubSeq(trackId, Len(uriPrefix) + 1, Len(trackId))
  ELSE trackId

\* C30: an identifier that, its optional prefix taken off, is not exactly 22
\* alphanumeric characters is rejected by handleTrackRemoval and by
\* addToPlaylists: no add or remove request carries a reference taken from it.
C30_MalformedRejected ==
  \A c \in 1..Len(mcalls) :
    ( /\ mcalls[c].method \in { "handle", "add" }
      /\ ~validateTrackId(StripPrefix(mcalls[c].arg)) )
    => /\ mcalls[c].ref = NoId
       /\ ~ \E r \in issued : /\ r.call = c
                               /\ ~(r.kind = "add" /\ r.playlist = "new")
                               /\ Includes(mcalls[c].arg, r.ref)

(***************************************************************************)
(* Seeding of the song queue from the playlists                            *)
(***************************************************************************)
\* Mutation: the New Playlist is read first.
SeedSourceOverflowFirst(active, overflow) ==
  IF Len(overflow) > 0 THEN "new" ELSE IF Len(active) > 0 THEN "active" ELSE "none"

\* Which playlist syncQueueWithActivePlaylist fills the queue from: the active
\* one if activeTracks.body.items.length > 0, else the New Playlist if that
\* has items, else none
SeedSource(active, overflow) ==
  IF Len(active) > 0 THEN "active" ELSE IF Len(overflow) > 0 THEN "new" ELSE "none"

\* A call of syncQueueWithActivePlaylist, whatever the queue holds
seedCall ==
  /\ seeding < MaxFrames
  /\ seeding' = SeedCheck(songs, seeding)
  /\ UNCHANGED << songs, songStore, created, currentlyPlayingSong, now, finishing >>
  /\ voteResult' = "none"
  /\ UNCHANGED notSongs

\* syncQueueWithActivePlaylist after its remote calls, which answer with the
\* tracks the two playlists hold
seedFromPlaylists ==
  /\ seeding > 0
  /\ LET source == SeedSource(activePlaylist, newPlaylist)
         items == IF source = "active" THEN activePlaylist
                  ELSE IF source = "new" THEN newPlaylist ELSE << >>
     IN seedFill(source, items)

SeedNext ==
  \/ \E u \in Tracks, w \in Adders : addSong(u, w)
  \/ removeFirst
  \/ onSongFinish
  \/ onSongFinishResume
  \/ seedCall
  \/ seedFromPlaylists

\* The playlists as the bot finds them, with one or two tracks or none
SeedInit ==
  /\ InitQueue /\ InitSongs /\ InitWatcher /\ InitAuth /\ InitFinish /\ InitManager /\ InitCommands
  /\ activePlaylist \in { << >> } \cup SeedLists
  /\ newPlaylist \in { << >>, << "t2" >>, << "t2", "t1" >> }
  /\ library = << >>
  /\ taskPc = [i \in OpIds |-> "start"]
  /\ taskItems = [i \in OpIds |-> << >>]
  /\ awaited = [i \in OpIds |-> 0]
  /\ topLevel = << >>
  /\ seenAfter = [i \in OpIds |-> NotSeen]
  /\ devices = "none"
  /\ player = "off"
  /\ plays = << >>

SeedSpec == SeedInit /\ [][SeedNext]_vars

\* The tracks of the songs of the queue, in order
QueueTracks(st, q) == [i \in 1..Len(q) |-> TrackIdOf(st[q[i]])]

maxSearchAttempts == 3

\* The status the loop retries on
retriedStatus == 500

\* How spotifyManager.searchTracks can end: tracks found, an error of the remote
\* server (500, 503), an error of the request (400), an error without status
SearchOutcomes ==
  { Fulfilled(SuccessResult), ApiError(500), ApiError(503), ApiError(400), Rejected("network") }

\* A remote server error: status 5xx
IsServerError(error) ==
  "statusCode" \in DOMAIN error /\ error.statusCode >= 500 /\ error.statusCode <= 599

\* if (attempt === 3 || error.statusCode !== 500) throw error
Rethrows(attempt, error) ==
  \/ attempt = maxSearchAttempts
  \/ ~("statusCode" \in DOMAIN error /\ error.statusCode = retriedStatus)

\* execute(interaction) of /addsong up to the first searchTracks call
addsongCommand(c) ==
  /\ search[c].pc = "idle"
  /\ search' = [search EXCEPT ![c].pc = "searching", ![c].attempt = 1,
                              ![c].result = NotSettled]
  /\ UNCHANGED << skip, svars >>
  /\ UNCHANGED notCommands

\* The searchTracks call of the current attempt ends: a value leaves the loop,
\* an error is rethrown or followed by the wait before the next attempt
searchSettles(c, outcome) ==
  /\ search[c].pc = "searching"
  /\ search' = [search EXCEPT
       ![c].log = Append(@, outcome),
       ![c].pc = IF outcome.kind = "value" \/ Rethrows(search[c].attempt, outcome)
                 THEN "done" ELSE "backoff",
       ![c].result = IF outcome.kind = "value" \/ Rethrows(search[c].attempt, outcome)
                     THEN outcome ELSE @]
  /\ UNCHANGED << skip, svars >>
  /\ UNCHANGED notCommands

\* await new Promise(resolve => setTimeout(resolve, 1000)) ends: next attempt
backoffEnds(c) ==
  /\ search[c].pc = "backoff"
  /\ search' = [search EXCEPT ![c].pc = "searching", ![c].attempt = @ + 1]
  /\ UNCHANGED << skip, svars >>
  /\ UNCHANGED notCommands

SearchNext ==
  \/ \E c \in SearchIds : addsongCommand(c)
  \/ \E c \in SearchIds, o \in SearchOutcomes : searchSettles(c, o)
  \/ \E c \in SearchIds : backoffEnds(c)

SearchSpec == Init /\ [][SearchNext]_vars

\* C32: a search that fails with a remote server error (5xx) every time is
\* attempted three times and the third failure reaches the caller; a search
\* that fails with another error is attempted once.  No search is attempted
\* more than three times.
C32_SearchRetries ==
  \A c \in SearchIds :
    /\ Len(search[c].log) <= maxSearchAttempts
    /\ search[c].pc = "done" /\ search[c].result.kind = "error" =>
         LET n == Len(search[c].log) IN
         /\ search[c].result = search[c].log[n]
         /\ (\A k \in 1..n : IsServerError(search[c].log[k])) => n = maxSearchAttempts
         /\ ~IsServerError(search[c].log[1]) => n = 1

\* C33: an operation that is not critical and whose task awaits another such
\* operation of the same queue does not wait for itself: the nested operation
\* is started while the caller of the outer one is still waiting, not after
\* the outer operation has been answered with its timeout.
C33_NestedRunsBeforeOuterTimeout ==
  [][ \A e \in Submitted :
        LET n == awaited[e] IN
        ( /\ n # 0
          /\ ~IsCriticalOperation(submitted[e].description)
          /\ ~IsCriticalOperation(submitted[n].description)
          /\ task[n] # "running" /\ task'[n] = "running" )
        => caller'[e].kind = "pending" ]_vars

(***************************************************************************)
(* What the callers of queued operations receive                           *)
(***************************************************************************)
\* 0 and undefined, the falsy values besides false and null
ZeroValue == [t |-> "zero"]
UndefinedValue == [t |-> "undefined"]

\* What a task can return: an object and the falsy values
ReturnOutcomes ==
  { Fulfilled(v) : v \in { SuccessResult, NullValue, FalseValue, ZeroValue, UndefinedValue } }

ResultNext ==
  \/ \E s \in Submissions : queueOperationLive(s[1], s[2])
  \/ \E id \in OpIds, o \in ReturnOutcomes : TaskSettles(id, o)
  \/ \E id \in OpIds : TimerFires(id)

ResultSpec == Init /\ [][ResultNext]_vars

C35_FailedPollChangesNothing ==
  [][ \A c \in CheckIds :
        ( /\ Resumes(c)
          /\ (polled'[c].kind = "error" \/ polled'[c] = Fulfilled(NullValue))
          /\ IsTrack(currentlyPlaying.value) )
        => /\ currentlyPlaying' = currentlyPlaying
           /\ emitted' = emitted
           /\ checkPc'[c] = "done" ]_vars

\* The operations a worker loop is suspended on: processQueue awaits the race
\* of an operation that is not critical
AwaitedByWorker ==
  { id \in Submitted : /\ ~IsCriticalOperation(submitted[id].description)
                       /\ race[id].kind = "pending" }

\* C36: no submitted operation is stranded.  Whenever the pending list is not
\* empty isProcessingQueue is true; isProcessingQueue is true exactly while a
\* worker loop is suspended on the race of its current operation, and there is
\* never more than one such loop; isProcessingQueue is false only with an
\* empty pending list.
C36_NoStrandedOperation ==
  /\ (operationQueue # << >> => isProcessingQueue)
  /\ Cardinality(AwaitedByWorker) <= 1
  /\ (isProcessingQueue <=> AwaitedByWorker = { current })
  /\ (~isProcessingQueue => operationQueue = << >> /\ current = 0)

\* An operation waits in the pending list while the worker loop is suspended
\* on the operation submitted before it
C36_Witness ==
  /\ operationQueue = << 2 >>
  /\ isProcessingQueue
  /\ AwaitedByWorker = { 1 }
  /\ inflightAtSubmit[2] = 1

\* C37: reconciliation with the remote now-playing track neither duplicates
\* nor drops a song: a call of syncWithSpotify on a queue that holds each of
\* its songs once leaves a queue that holds the same songs, each once.
C37_ReconcileKeepsSongs ==
  [][ ((\E t \in Tracks : syncWithSpotify(t)) /\ NoRepeats(songs))
        => /\ NoRepeats(songs')
           /\ SeqToSet(songs') = SeqToSet(songs) ]_vars

\* C38: seeding never discards a song a user added: the songs users added
\* that are in the queue when syncQueueWithActivePlaylist resumes from its
\* remote calls (they were added while it was suspended, as it saw an empty
\* queue) are still in the queue when it has finished.
C38_SeedingKeepsUserSongs ==
  [][ seeding' < seeding =>
        \A i \in 1..Len(songs) :
          songStore[songs[i]].addedBy \in Users =>
            \E j \in 1..Len(songs') : songs'[j] = songs[i] ]_vars

(***************************************************************************)
(* The /skip command                                                       *)
(***************************************************************************)
SkipCounts == 1..MaxSkip

\* execute of /skip up to its loop: count songs are to be skipped, the track
\* getCurrentlyPlaying answered with has an id or has none, and
\* QueueDisplay.clearSongTimer() has cleared the song timer.
skipCommand(count, hasId) ==
  /\ skip.pc = "idle"
  /\ skip' = [pc |-> "loop", i |-> 0, count |-> count, hasId |-> hasId,
              reported |-> 0, popped |-> 0]
  /\ songTimer' = "none"
  /\ UNCHANGED << remoteTrack, retired, due, popped, changeLog >>
  /\ UNCHANGED << search, svars, qvars, wvars, avars, pvars, xvars, mvars >>

\* An iteration of the loop up to its await: the first one, given a track id,
\* awaits handleTrackRemoval of the playing track; any other reads the head
\* of the queue and awaits its handleTrackRemoval, or breaks on an empty queue.
skipReads ==
  /\ skip.pc = "loop"
  /\ skip' = [skip EXCEPT !.pc = IF (skip.i = 0 /\ skip.hasId) \/ songs # << >>
                                  THEN "removing" ELSE "done"]
  /\ UNCHANGED << search, svars >>
  /\ UNCHANGED notCommands

\* The iteration after its await: songQueue.removeFirst() if the title came
\* from the queue, skippedSongs.push(title), then client.emit('songFinish'),
\* whose handler runs QueueDisplay.onSongFinish up to its first await.
skipResumes ==
  /\ skip.pc = "removing"
  /\ LET fromQueue == skip.i > 0 \/ ~skip.hasId
         removed == fromQueue /\ songs # << >>
         q1 == IF removed THEN Tail(songs) ELSE songs
         pops == (IF removed THEN 1 ELSE 0) + (IF q1 # << >> THEN 1 ELSE 0)
     IN /\ onSongFinishFrom(q1)
        /\ skip' = [skip EXCEPT !.i = @ + 1,
                                !.reported = @ + 1,
                                !.popped = @ + pops,
                                !.pc = IF skip.i + 1 < skip.count THEN "loop" ELSE "done"]
  /\ UNCHANGED search
  /\ UNCHANGED notCommands

SkipNext ==
  \/ \E u \in Tracks, w \in Adders : addSong(u, w)
  \/ \E n \in SkipCounts, h \in BOOLEAN : skipCommand(n, h)
  \/ skipReads
  \/ skipResumes
  \/ onSongFinishResume
  \/ seedFromPlaylists

SkipSpec == SeedInit /\ [][SkipNext]_vars

\* C39: skip(count) removes from the queue as many songs as it reports
\* retired titles; in particular it never has removed more songs than it has
\* reported titles, each skipped position popping the head at most once.
C39_SkipPopsOncePerTitle == skip.popped <= skip.reported

(***************************************************************************)
(* The cached track lists and the calls that change the playlists          *)
(***************************************************************************)
\* A call of addToPlaylists while fewer than MaxCacheCalls calls were made
addToPlaylistsAgain(candidate) ==
  /\ Len(mcalls) < MaxCacheCalls
  /\ addToPlaylistsCalled(candidate)

CacheNext ==
  \/ refreshPlaylists
  \/ \E t \in { TrackA, TrackB } : addToPlaylistsAgain(t)
  \/ \E c \in 1..MaxCacheCalls : managerTimerFires(c)
  \/ \E c \in 1..MaxCacheCalls, found \in { TrackB, NoId } : addToPlaylistsResumes(c, found)
  \/ \E c \in 1..MaxCacheCalls, pages \in PageOutcomes : ensureActs(c, pages)

CacheSpec == ManagerInit /\ [][CacheNext]_vars

\* addToPlaylists call c takes its membership decision in this step
Decides(c) ==
  /\ c \in 1..Len(mcalls) /\ mcalls[c].pc = "search"
  /\ mcalls'[c].pc # "search" /\ mcalls'[c].added # << >>

\* C40: a membership decision taken after a track was added to a playlist
\* never uses a track list cached before that addition: when addToPlaylists
\* decides after the bot has added a track to the active playlist, a list
\* fetched into the cache before is not the list it tests, so the list it
\* tests is the one the playlist has.
C40_DecisionNotFromStaleCache ==
  [][ \A c \in 1..MaxCacheCalls :
        ( /\ Decides(c)
          /\ activePlaylistTracks # << >>
          /\ \E r \in issued : r.kind = "add" /\ r.playlist = "active" )
        => activePlaylistTracks = activePlaylist ]_vars

====
